---- MODULE Spec2Model ----
(***************************************************************************)
(* A model of the SVG snapshot engine of svg_snapshot.py: the value        *)
(* interpolator (interpolate_value_token, interpolate_values), the timing  *)
(* model (Animator.get_time_position), the animation primitives            *)
(* (StaticValueAnimator, ValueAnimator, TransformAnimator) and the         *)
(* snapshot query (SnapshotSVG.__getitem__: reset, apply, motion_compile). *)
(*                                                                         *)
(* Representation.                                                         *)
(*  - An attribute value (a Python str) is the sequence of tokens that     *)
(*    NUMBER_SPLITTER.split yields for it: non-numeric runs and numeric    *)
(*    literals.  A numeric literal keeps its spelling: sign, digits and    *)
(*    number of decimals ("10" is not "10.000").                           *)
(*  - A float is an exact rational: an integer count of thousandths, or a  *)
(*    numerator over a denominator where a division has taken place.       *)
(*  - Clock values are integer ticks.                                      *)
(*  - An attribute map (lxml _Attrib, dict) is a function whose DOMAIN is  *)
(*    the set of keys present.                                             *)
(***************************************************************************)
EXTENDS Integers, Sequences, FiniteSets, TLC

VARIABLES
    authored,   \* the attribute maps of the document SnapshotSVG was built from
    svg,        \* SnapshotSVG.svg: node -> attribute map (the one stored tree)
    animators,  \* SnapshotSVG.animators: the primitives, sorted by begin
    now,        \* the t of the last __getitem__, NoTime before the first
    raised,     \* TRUE when the last __getitem__ ended in an exception
    queries,    \* the number of __getitem__ calls made so far
    elem,       \* timing study: one animation element
    tq,         \* timing study: the t given to get_time_position / apply
    pos,        \* timing study: what get_time_position returned
    target,     \* timing study: the target's attribute map after apply
    args,       \* interpolator study: the arguments of interpolate_values
    out,        \* interpolator study: what interpolate_values returned
    input,      \* construction study: the animated document under study
    NUM_IDS,    \* the module global NUM_IDS of svg_snapshot.py
    engines,    \* construction study: the SnapshotSVG(...) calls made so far
    times,      \* cue tree: node -> begin_time and end_time of the RASVComponent
    highlight,  \* cue tree: node -> RASVComponent.highlight
    stage,      \* cue tree: where add_all_timestamps stands
    cue,        \* cue tree: the arguments of the last addTimestamp
    ncues,      \* cue tree: the number of addTimestamp calls made
    positions,  \* BouncingBall.positions: begin time -> BouncingBallPosition
    animations, \* BouncingBall.animations
    first_animation_begins, \* BouncingBall.first_animation_begins
    ballcues,   \* the number of BouncingBall.addTimestamp calls made
    visited,    \* the components those calls found in the slideshow
    compiles,   \* the number of BouncingBall.compile calls made
    slides,     \* padding study: begin_time and end_time of the Slideshow's slides
    padded      \* padding study: the total_duration pad_slides was called with

vars == <<authored, svg, animators, now, raised, queries, elem, tq, pos, target, args, out,
          input, NUM_IDS, engines, times, highlight, stage, cue, ncues,
          positions, animations, first_animation_begins, ballcues, visited, compiles,
          slides, padded>>

engineVars == <<authored, svg, animators, now, raised, queries>>
timingVars == <<elem, tq, pos, target>>
interpVars == <<args, out>>
buildVars == <<input, NUM_IDS, engines>>
cueVars == <<times, highlight, stage, cue, ncues>>
ballVars == <<positions, animations, first_animation_begins, ballcues, visited, compiles>>
padVars == <<slides, padded>>

----------------------------------------------------------------------------
(* Bounds of the model *)

\* query times are 0..MaxT ticks
MaxT == 8
\* begin values are 0..MaxBegin ticks
MaxBegin == 2
\* dur values are 0..MaxDur ticks
MaxDur == 2
\* numeric repeatCount values are 1..MaxRc halves of a cycle
MaxRc == 4
\* numeric repeatDur values are 0..MaxRd ticks
MaxRd == 3
\* the engine is queried at most MaxQueries times
MaxQueries == 2
\* the engine is queried at 0..EngineMaxT ticks
EngineMaxT == 4
\* the engine's animation elements begin at 0..EngineMaxBegin ticks
EngineMaxBegin == 1
\* the engine's animation elements last EngineDur ticks
EngineDur == 2
\* at most MaxBuilds engines are constructed in one process
MaxBuilds == 2
\* the cue list of add_all_timestamps holds at most MaxCues cues
MaxCues == 2
\* cue times are 0..CueMaxT seconds
CueMaxT == 4
\* the ball is given at most MaxBallCues timestamps
MaxBallCues == 3
\* the ball's timestamps begin at 0..BallMaxT seconds
BallMaxT == 5
\* and last 0..MaxBallDur seconds
MaxBallDur == 2
\* BouncingBall.compile runs at most MaxCompiles times
MaxCompiles == 2
\* a slideshow has at most MaxSlides slides
MaxSlides == 2
\* slide times and total_duration are 0..MaxPadTime half seconds
MaxPadTime == 28
\* the significant bits a float of the padding study keeps (a double: 53)
MantissaBits == 3
\* interpolation fractions handed to the interpolator are k/FracDen, k in 0..FracDen
FracDen == 4

----------------------------------------------------------------------------
(* Numbers and tokens *)

\* "{:.3f}": the interpolator prints three decimals
Decimals == 3

Abs(x) == IF x < 0 THEN -x ELSE x

Min(a, b) == IF a < b THEN a ELSE b

Max(a, b) == IF a > b THEN a ELSE b

RECURSIVE Pow10(_)
Pow10(k) == IF k = 0 THEN 1 ELSE 10 * Pow10(k - 1)

\* Python's % with a positive divisor: the result lies in [0, b)
PyMod(a, b) == a % b

\* Python's math.floor(a / b) for b > 0
FloorDiv(a, b) == a \div b

\* F of the value of x, with x evaluated once
Bind(x, F(_)) == CHOOSE y \in {F(v) : v \in {x}} : TRUE

\* a non-numeric run of characters
Txt(s) == [num |-> FALSE, text |-> s, neg |-> FALSE, n |-> 0, d |-> 0]

\* a numeric literal: sign, digits n, written with d decimals (10.5 is n=105, d=1)
Num(neg, n, d) == [num |-> TRUE, text |-> "", neg |-> neg, n |-> n, d |-> d]

\* a rational fraction
Frac(a, b) == [num |-> a, den |-> b]

\* float(s) of a numeric literal, in thousandths
FloatOf(tok) == (IF tok.neg THEN -1 ELSE 1) * tok.n * Pow10(Decimals - tok.d)

\* "{:.3f}".format(a / b) for b > 0: round to the nearest thousandth (a is in
\* thousandths), ties to even; a negative value keeps its minus sign
Format3(a, b) ==
    LET mag == Abs(a)
        fl  == mag \div b
        r   == mag % b
        up  == (2 * r > b) \/ (2 * r = b /\ fl % 2 = 1)
    IN Num(a < 0, IF up THEN fl + 1 ELSE fl, Decimals)

\* the exception an operation raises, as a value
Raise == <<Txt("<Exception>")>>

RaiseTok == Txt("<Exception>")

----------------------------------------------------------------------------
(* Value interpolator *)

\* isfloat(value): the token is a numeric literal
isfloat(tok) == tok.num

\* interpolation with the sign of v1 slipped: v1 + pos * (v2 + v1)
interpolation_sign_slip(v1, v2, p, M) ==
    Bind(v1 * p.den + p.num * (v2 + v1),
         LAMBDA raw : Format3(IF M # 0 THEN PyMod(raw, M * p.den) ELSE raw, p.den))

\* v1 + pos * (v2 - v1), then %= mod and "{:.3f}": v1 and v2 in thousandths,
\* the sum kept over the denominator of pos
interpolation(v1, v2, p, M) ==
    Bind(v1 * p.den + p.num * (v2 - v1),
         LAMBDA raw : Format3(IF M # 0 THEN PyMod(raw, M * p.den) ELSE raw, p.den))

\* shift_by_mod that never shifts
shift_by_mod_never(v, w, M) == v

\* if abs(v + mod - w) < abs(v - w): v += mod
shift_by_mod(v, w, M) == IF M # 0 /\ Abs(v + M - w) < Abs(v - w) THEN v + M ELSE v

\* v %= mod when a modulus is given
reduce_by_mod(v, M) == IF M # 0 THEN PyMod(v, M) ELSE v

\* interpolate_value_token(s1, s2, pos, mod): pos is a fraction, mod a whole
\* number of units (0: no modulus)
interpolate_value_token(s1, s2, p, mod) ==
    IF ~isfloat(s1) \/ ~isfloat(s2)
    THEN IF s1 = s2 THEN s1 ELSE RaiseTok
    ELSE Bind(mod * Pow10(Decimals), LAMBDA M :
         Bind(reduce_by_mod(FloatOf(s1), M), LAMBDA m1 :
         Bind(reduce_by_mod(FloatOf(s2), M), LAMBDA m2 :
         Bind(shift_by_mod(m1, m2, M), LAMBDA v1 :
         Bind(shift_by_mod(m2, v1, M), LAMBDA v2 :
              interpolation(v1, v2, p, M))))))

\* mod=None of interpolate_values
NoMod == <<-1>>

\* the number of numeric tokens among the first i tokens of s
NumRank(s, i) == Cardinality({j \in 1..i : isfloat(s[j])})

\* the list of interpolate_value_token results: zip stops at the shortest of
\* its arguments
token_results(parts1, parts2, p, mod) ==
    [i \in 1..(IF mod = NoMod THEN Len(parts1) ELSE Min(Len(parts1), Len(mod))) |->
        interpolate_value_token(parts1[i], parts2[i], p,
                                IF mod = NoMod THEN 0 ELSE mod[i])]

\* the loop over splits1 that puts the results back among the other tokens;
\* results[0] of an exhausted list raises
result_str(s1, results) ==
    IF Len(results) < Len(SelectSeq(s1, isfloat)) THEN Raise
    ELSE [i \in 1..Len(s1) |->
            IF isfloat(s1[i]) THEN results[NumRank(s1, i)] ELSE s1[i]]

\* interpolate_values(s1, s2, pos, mod): s1 and s2 are the token sequences
\* NUMBER_SPLITTER.split gives; mod is NoMod or a tuple of moduli
interpolate_values(s1, s2, p, mod) ==
    Bind(SelectSeq(s1, isfloat), LAMBDA parts1 :
    Bind(SelectSeq(s2, isfloat), LAMBDA parts2 :
        IF Len(parts1) # Len(parts2) THEN Raise
        ELSE Bind(token_results(parts1, parts2, p, mod),
                  LAMBDA results : result_str(s1, results))))

----------------------------------------------------------------------------
(* Timing model *)

\* an optional attribute of the animation element that is absent
Absent == [kind |-> "absent", val |-> 0]

\* repeatCount="indefinite", repeatDur="indefinite"
Indefinite == [kind |-> "indefinite", val |-> 0]

\* a numeric repeatCount (in 1/RcDen cycles) or repeatDur (in ticks)
Value(v) == [kind |-> "value", val |-> v]

\* repeatCount values are written in halves of a cycle ("0.5", "1", "1.5", ...)
RcDen == 2

\* the sentinel -1 of get_time_position
Inactive == Frac(-1, 1)

\* the 1.0 of get_time_position
One == Frac(1, 1)

\* get_time_position whose plain expiry forgets fill=freeze
get_time_position_no_freeze(a, t) ==
    LET time_since_begin == t - a.begin
    IN IF time_since_begin < 0 \/ a.dur <= 0 THEN Inactive
       ELSE
        LET cycles_since_begin == FloorDiv(time_since_begin, a.dur) + 1
        IN IF /\ a.repeatCount.kind = "absent"
              /\ a.repeatDur.kind = "absent"
              /\ time_since_begin > a.dur
           THEN Inactive
           ELSE IF /\ a.repeatCount.kind = "value"
                   /\ cycles_since_begin * RcDen > a.repeatCount.val
           THEN IF a.fill = "freeze" THEN One ELSE Inactive
           ELSE IF /\ a.repeatDur.kind = "value"
                   /\ time_since_begin >= a.repeatDur.val
           THEN IF a.fill = "freeze"
                THEN Frac(PyMod(a.repeatDur.val - a.begin, a.dur), a.dur)
                ELSE Inactive
           ELSE Frac(PyMod(time_since_begin, a.dur), a.dur)

\* get_time_position without the test of t against begin
get_time_position_no_begin_test(a, t) ==
    LET time_since_begin == t - a.begin
    IN IF a.dur <= 0 THEN Inactive
       ELSE
        LET cycles_since_begin == FloorDiv(time_since_begin, a.dur) + 1
        IN IF /\ a.repeatCount.kind = "absent"
              /\ a.repeatDur.kind = "absent"
              /\ time_since_begin > a.dur
           THEN IF a.fill = "freeze" THEN One ELSE Inactive
           ELSE IF /\ a.repeatCount.kind = "value"
                   /\ cycles_since_begin * RcDen > a.repeatCount.val
           THEN IF a.fill = "freeze" THEN One ELSE Inactive
           ELSE IF /\ a.repeatDur.kind = "value"
                   /\ time_since_begin >= a.repeatDur.val
           THEN IF a.fill = "freeze"
                THEN Frac(PyMod(a.repeatDur.val - a.begin, a.dur), a.dur)
                ELSE Inactive
           ELSE Frac(PyMod(time_since_begin, a.dur), a.dur)

\* get_time_position that is inactive at t = begin too
get_time_position_begin_excluded(a, t) ==
    LET time_since_begin == t - a.begin
    IN IF time_since_begin <= 0 \/ a.dur <= 0 THEN Inactive
       ELSE
        LET cycles_since_begin == FloorDiv(time_since_begin, a.dur) + 1
        IN IF /\ a.repeatCount.kind = "absent"
              /\ a.repeatDur.kind = "absent"
              /\ time_since_begin > a.dur
           THEN IF a.fill = "freeze" THEN One ELSE Inactive
           ELSE IF /\ a.repeatCount.kind = "value"
                   /\ cycles_since_begin * RcDen > a.repeatCount.val
           THEN IF a.fill = "freeze" THEN One ELSE Inactive
           ELSE IF /\ a.repeatDur.kind = "value"
                   /\ time_since_begin >= a.repeatDur.val
           THEN IF a.fill = "freeze"
                THEN Frac(PyMod(a.repeatDur.val - a.begin, a.dur), a.dur)
                ELSE Inactive
           ELSE Frac(PyMod(time_since_begin, a.dur), a.dur)

\* get_time_position without the plain expiry test
get_time_position_no_expiry(a, t) ==
    LET time_since_begin == t - a.begin
    IN IF time_since_begin < 0 \/ a.dur <= 0 THEN Inactive
       ELSE
        LET cycles_since_begin == FloorDiv(time_since_begin, a.dur) + 1
        IN IF /\ a.repeatCount.kind = "absent"
              /\ a.repeatDur.kind = "absent"
              /\ time_since_begin > a.dur
              /\ FALSE
           THEN IF a.fill = "freeze" THEN One ELSE Inactive
           ELSE IF /\ a.repeatCount.kind = "value"
                   /\ cycles_since_begin * RcDen > a.repeatCount.val
           THEN IF a.fill = "freeze" THEN One ELSE Inactive
           ELSE IF /\ a.repeatDur.kind = "value"
                   /\ time_since_begin >= a.repeatDur.val
           THEN IF a.fill = "freeze"
                THEN Frac(PyMod(a.repeatDur.val - a.begin, a.dur), a.dur)
                ELSE Inactive
           ELSE Frac(PyMod(time_since_begin, a.dur), a.dur)

\* get_time_position that tests the repeatDur expiry before the repeatCount one
get_time_position_dur_first(a, t) ==
    LET time_since_begin == t - a.begin
    IN IF time_since_begin < 0 \/ a.dur <= 0 THEN Inactive
       ELSE
        LET cycles_since_begin == FloorDiv(time_since_begin, a.dur) + 1
        IN IF /\ a.repeatCount.kind = "absent"
              /\ a.repeatDur.kind = "absent"
              /\ time_since_begin > a.dur
           THEN IF a.fill = "freeze" THEN One ELSE Inactive
           ELSE IF /\ a.repeatDur.kind = "value"
                   /\ time_since_begin >= a.repeatDur.val
           THEN IF a.fill = "freeze"
                THEN Frac(PyMod(a.repeatDur.val - a.begin, a.dur), a.dur)
                ELSE Inactive
           ELSE IF /\ a.repeatCount.kind = "value"
                   /\ cycles_since_begin * RcDen > a.repeatCount.val
           THEN IF a.fill = "freeze" THEN One ELSE Inactive
           ELSE Frac(PyMod(time_since_begin, a.dur), a.dur)

\* get_time_position whose repeatDur expiry freezes at 1.0
get_time_position_dur_freezes_at_one(a, t) ==
    LET time_since_begin == t - a.begin
    IN IF time_since_begin < 0 \/ a.dur <= 0 THEN Inactive
       ELSE
        LET cycles_since_begin == FloorDiv(time_since_begin, a.dur) + 1
        IN IF /\ a.repeatCount.kind = "absent"
              /\ a.repeatDur.kind = "absent"
              /\ time_since_begin > a.dur
           THEN IF a.fill = "freeze" THEN One ELSE Inactive
           ELSE IF /\ a.repeatCount.kind = "value"
                   /\ cycles_since_begin * RcDen > a.repeatCount.val
           THEN IF a.fill = "freeze" THEN One ELSE Inactive
           ELSE IF /\ a.repeatDur.kind = "value"
                   /\ time_since_begin >= a.repeatDur.val
           THEN IF a.fill = "freeze" THEN One ELSE Inactive
           ELSE Frac(PyMod(time_since_begin, a.dur), a.dur)

\* get_time_position whose plain expiry freezes at 0.0
get_time_position_freezes_at_zero(a, t) ==
    LET time_since_begin == t - a.begin
    IN IF time_since_begin < 0 \/ a.dur <= 0 THEN Inactive
       ELSE
        LET cycles_since_begin == FloorDiv(time_since_begin, a.dur) + 1
        IN IF /\ a.repeatCount.kind = "absent"
              /\ a.repeatDur.kind = "absent"
              /\ time_since_begin > a.dur
           THEN IF a.fill = "freeze" THEN Frac(0, 1) ELSE Inactive
           ELSE IF /\ a.repeatCount.kind = "value"
                   /\ cycles_since_begin * RcDen > a.repeatCount.val
           THEN IF a.fill = "freeze" THEN One ELSE Inactive
           ELSE IF /\ a.repeatDur.kind = "value"
                   /\ time_since_begin >= a.repeatDur.val
           THEN IF a.fill = "freeze"
                THEN Frac(PyMod(a.repeatDur.val - a.begin, a.dur), a.dur)
                ELSE Inactive
           ELSE Frac(PyMod(time_since_begin, a.dur), a.dur)

\* Animator.get_time_position(t) of animator a
get_time_position(a, t) ==
    LET time_since_begin == t - a.begin
    IN IF time_since_begin < 0 \/ a.dur <= 0 THEN Inactive
       ELSE
        LET cycles_since_begin == FloorDiv(time_since_begin, a.dur) + 1
        IN IF /\ a.repeatCount.kind = "absent"
              /\ a.repeatDur.kind = "absent"
              /\ time_since_begin > a.dur
           THEN IF a.fill = "freeze" THEN One ELSE Inactive
           ELSE IF /\ a.repeatCount.kind = "value"
                   /\ cycles_since_begin * RcDen > a.repeatCount.val
           THEN IF a.fill = "freeze" THEN One ELSE Inactive
           ELSE IF /\ a.repeatDur.kind = "value"
                   /\ time_since_begin >= a.repeatDur.val
           THEN IF a.fill = "freeze"
                THEN Frac(PyMod(a.repeatDur.val - a.begin, a.dur), a.dur)
                ELSE Inactive
           ELSE Frac(PyMod(time_since_begin, a.dur), a.dur)

----------------------------------------------------------------------------
(* Attribute maps *)

\* attrib[key] = value
SetAttr(m, key, value) ==
    [k \in DOMAIN m \cup {key} |-> IF k = key THEN value ELSE m[k]]

\* attrib.get(key, default)
GetAttr(m, key, default) == IF key \in DOMAIN m THEN m[key] ELSE default

\* attrib[key] += " " + value when the key is present, attrib[key] = value otherwise
AppendAttr(m, key, value) ==
    IF key \in DOMAIN m
    THEN SetAttr(m, key, m[key] \o <<Txt(" ")>> \o value)
    ELSE SetAttr(m, key, value)

\* clear_attrib with the deletion loop left out
clear_attrib_kept(m) == m

\* for key in attrib: del attrib[key]
clear_attrib(m) == [k \in DOMAIN m \ DOMAIN m |-> m[k]]

\* the outcome of an operation on an attribute map: ok = FALSE when it raised
Outcome(ok, m) == [ok |-> ok, attrib |-> m]

----------------------------------------------------------------------------
(* Animation primitives.  An animator is a record                          *)
(*   tag (set, animate, animateTransform), target (node), target_attrib,   *)
(*   begin, dur, fill, repeatCount, repeatDur,                             *)
(*   attrib_name, attrib_from, attrib_to, transform_type,                  *)
(*   path, path_id, attrib_rotate (animateMotion)                          *)

\* "data-motion-" + self.transform_type
DataAttribName(transform_type) ==
    IF transform_type = "translate" THEN "data-motion-translate"
    ELSE "data-motion-rotate"

\* the modulus tuple TransformAnimator.apply hands to interpolate_values
TransformMod(transform_type) ==
    IF transform_type = "rotate" THEN <<360, 0, 0>> ELSE NoMod

\* StaticValueAnimator.apply(t) on the attribute map m of the target
StaticValueAnimator_apply(a, t, m) ==
    IF get_time_position(a, t).num < 0 THEN Outcome(TRUE, m)
    ELSE Outcome(TRUE, SetAttr(m, a.attrib_name, a.attrib_to))

\* ValueAnimator.apply(t) on the attribute map m of the target
ValueAnimator_apply(a, t, m) ==
    Bind(get_time_position(a, t), LAMBDA time_position :
        IF time_position.num < 0 THEN Outcome(TRUE, m)
        ELSE Bind(interpolate_values(a.attrib_from, a.attrib_to, time_position, NoMod),
                  LAMBDA value :
                    IF value = Raise THEN Outcome(FALSE, m)
                    ELSE Outcome(TRUE, SetAttr(m, a.attrib_name, value))))

\* result = self.transform_type + "(" + result + ")"
transform_fragment(transform_type, value) ==
    <<Txt(transform_type), Txt("(")>> \o value \o <<Txt(")")>>

\* TransformAnimator.apply(t) on the attribute map m of the target
TransformAnimator_apply(a, t, m) ==
    Bind(get_time_position(a, t), LAMBDA time_position :
        IF time_position.num < 0 THEN Outcome(TRUE, m)
        ELSE Bind(interpolate_values(a.attrib_from, a.attrib_to, time_position,
                                     TransformMod(a.transform_type)),
                  LAMBDA value :
                    IF value = Raise THEN Outcome(FALSE, m)
                    ELSE IF a.transform_type \in {"translate", "rotate"}
                    THEN Outcome(TRUE, AppendAttr(m, DataAttribName(a.transform_type),
                                         transform_fragment(a.transform_type, value)))
                    ELSE Outcome(TRUE, AppendAttr(m, a.attrib_name,
                                         transform_fragment(a.transform_type, value)))))

\* self.path = None: no path attribute, or one parse_path_str could not parse
NoPath == [ok |-> FALSE, x |-> 0, y |-> 0]

\* the parsed path "M0,0 L x,y": the straight line from the origin to (x, y),
\* along one of the axes
Line(x, y) == [ok |-> TRUE, x |-> x, y |-> y]

\* parse_path_str(path_str): the parsed path, None when parse_path raised
parse_path_str(path_str) ==
    IF path_str = "M0,0 L10,0" THEN Line(10, 0)
    ELSE IF path_str = "M0,0 L0,10" THEN Line(0, 10)
    ELSE NoPath

\* path.point(pos) of a line, one coordinate c of its end point, added to the
\* coordinate cur of the target and printed: "{:.3f}".format(cur + point)
point_value(cur, c, p) == Format3(cur * p.den + p.num * c * Pow10(Decimals), p.den)

\* get_target_pos, one coordinate: float(self.target.attrib.get(label, 0.0)),
\* in thousandths; the target is no circle
get_target_pos(m, label) ==
    LET v == GetAttr(m, label, <<Num(FALSE, 0, 0)>>)
    IN FloatOf(v[1])

\* math.degrees(math.atan2(dy, dx)) along a line that follows the x or the y
\* axis, plus 180 for auto-reverse, in thousandths
tangent_angle(path, rotate) ==
    ((IF path.y = 0 THEN 0 ELSE 90) + (IF rotate = "auto-reverse" THEN 180 ELSE 0))
        * Pow10(Decimals)

\* MotionAnimator.apply(t) on the attribute map m of the target; without a
\* parsed path it evaluates xpath_id(svg, self.path_id), and svg is no name
\* of the module or of the method: NameError
MotionAnimator_apply(a, t, m) ==
    Bind(get_time_position(a, t), LAMBDA time_position :
        IF time_position.num < 0 THEN Outcome(TRUE, m)
        ELSE IF ~a.path.ok THEN Outcome(FALSE, m)
        ELSE Bind(point_value(get_target_pos(m, "x"), a.path.x, time_position), LAMBDA value_x :
             Bind(point_value(get_target_pos(m, "y"), a.path.y, time_position), LAMBDA value_y :
             Bind(AppendAttr(m, "data-motion-translate",
                     transform_fragment("translate", <<value_x, Txt(" "), value_y>>)),
                  LAMBDA moved :
                    IF a.attrib_rotate \in {"auto", "auto-reverse"}
                    THEN Outcome(TRUE, AppendAttr(moved, "data-motion-rotate",
                            transform_fragment("rotate",
                                <<Format3(tangent_angle(a.path, a.attrib_rotate), 1),
                                  Txt(" "), value_x, Txt(" "), value_y>>)))
                    ELSE Outcome(TRUE, moved)))))

\* animator.apply(t): dispatch on the class make_animator chose for the tag
apply(a, t, m) ==
    IF a.tag = "set" THEN StaticValueAnimator_apply(a, t, m)
    ELSE IF a.tag = "animate" THEN ValueAnimator_apply(a, t, m)
    ELSE IF a.tag = "animateMotion" THEN MotionAnimator_apply(a, t, m)
    ELSE TransformAnimator_apply(a, t, m)

\* Animator.reset_target(): delete every key of the target, then copy
\* target_attrib into it
reset_target(a, m) ==
    LET cleared == clear_attrib(m)
    IN [k \in DOMAIN cleared \cup DOMAIN a.target_attrib |->
          IF k \in DOMAIN a.target_attrib THEN a.target_attrib[k] ELSE cleared[k]]

----------------------------------------------------------------------------
(* The document tree *)

\* the elements of the document: the root and two children
Nodes == {"svg", "w1", "w2"}

Root == "svg"

\* list(elem): the child elements, in document order
Children(n) == IF n = Root THEN <<"w1", "w2">> ELSE <<>>

\* motion_compile_elem that stores a transform on every element
motion_compile_elem_always(m) ==
    SetAttr(m, "transform",
        GetAttr(m, "data-motion-rotate", <<>>) \o <<Txt(" ")>>
        \o GetAttr(m, "data-motion-translate", <<>>) \o <<Txt(" ")>>
        \o GetAttr(m, "transform", <<>>))

\* motion_compile_elem with the two blocks in the other order
motion_compile_elem_swapped(m) ==
    LET m1 == IF "data-motion-rotate" \in DOMAIN m
              THEN SetAttr(m, "transform",
                     m["data-motion-rotate"] \o <<Txt(" ")>> \o GetAttr(m, "transform", <<>>))
              ELSE m
    IN IF "data-motion-translate" \in DOMAIN m1
       THEN SetAttr(m1, "transform",
              m1["data-motion-translate"] \o <<Txt(" ")>> \o GetAttr(m1, "transform", <<>>))
       ELSE m1

\* the body of motion_compile(elem) on the attribute map of elem
motion_compile_elem(m) ==
    LET m1 == IF "data-motion-translate" \in DOMAIN m
              THEN SetAttr(m, "transform",
                     m["data-motion-translate"] \o <<Txt(" ")>> \o GetAttr(m, "transform", <<>>))
              ELSE m
    IN IF "data-motion-rotate" \in DOMAIN m1
       THEN SetAttr(m1, "transform",
              m1["data-motion-rotate"] \o <<Txt(" ")>> \o GetAttr(m1, "transform", <<>>))
       ELSE m1

\* iter(elem) from the root: every element, in document order
Elements == <<Root>> \o Children(Root)

\* motion_compile(root): motion_compile visits the element, then recurses
\* into each child, so every element is compiled once, in document order
motion_compile(tree) ==
    LET done[i \in 0..Len(Elements)] ==
            IF i = 0 THEN tree
            ELSE [done[i - 1] EXCEPT ![Elements[i]] = motion_compile_elem(@)]
    IN done[Len(Elements)]

----------------------------------------------------------------------------
(* Snapshot engine *)

\* reset_all that resets the target of the first animator only
reset_all_first_only(as, tree) ==
    IF as = <<>> THEN tree
    ELSE [tree EXCEPT ![as[1].target] = reset_target(as[1], @)]

\* the first loop of __getitem__: reset_target of every animator, in order
reset_all(as, tree) ==
    LET done[i \in 0..Len(as)] ==
            IF i = 0 THEN tree
            ELSE [done[i - 1] EXCEPT ![as[i].target] = reset_target(as[i], @)]
    IN done[Len(as)]

\* one step of the second loop of __getitem__: animator.apply(t) on the tree
\* the steps before left; an exception leaves the loop with the tree as it is
apply_step(a, t, before) ==
    IF ~before.ok THEN before
    ELSE Bind(apply(a, t, before.tree[a.target]), LAMBDA o :
            IF ~o.ok THEN [ok |-> FALSE, tree |-> before.tree]
            ELSE [ok |-> TRUE, tree |-> [before.tree EXCEPT ![a.target] = o.attrib]])

\* the second loop of __getitem__: apply of every animator, in order
apply_all(as, t, tree) ==
    LET done[i \in 0..Len(as)] ==
            IF i = 0 THEN [ok |-> TRUE, tree |-> tree]
            ELSE Bind(done[i - 1], LAMBDA before : apply_step(as[i], t, before))
    IN done[Len(as)]

\* SnapshotSVG.__getitem__(t) on the stored tree: the tree it leaves, and
\* whether it returned (ok) or raised
getitem(as, t, tree) ==
    Bind(apply_all(as, t, reset_all(as, tree)), LAMBDA applied :
        IF applied.ok
        THEN [ok |-> TRUE, tree |-> motion_compile(applied.tree)]
        ELSE applied)

\* a sort that leaves the animators in extraction order
sorted_by_begin_not(s) ==
    s

\* a sort that leaves the animators in the reverse of their extraction order
sorted_by_begin_backwards(s) ==
    [i \in 1..Len(s) |-> s[Len(s) + 1 - i]]

RECURSIVE insert_by_begin(_, _)
\* a into the list s sorted by begin, after every element with begin <= a.begin
insert_by_begin(s, a) ==
    IF s = <<>> THEN <<a>>
    ELSE IF s[Len(s)].begin <= a.begin THEN Append(s, a)
    ELSE Append(insert_by_begin(SubSeq(s, 1, Len(s) - 1), a), s[Len(s)])

RECURSIVE sorted_by_begin(_)
\* sorted(animators, key=lambda a: a.begin): stable
sorted_by_begin(s) ==
    IF s = <<>> THEN <<>>
    ELSE insert_by_begin(sorted_by_begin(SubSeq(s, 1, Len(s) - 1)), s[Len(s)])

----------------------------------------------------------------------------
(* Inputs: values, documents and animation elements *)

\* an unsigned whole number written without decimals
Int0(n) == Num(FALSE, n, 0)

Black == <<Txt("black")>>
Red   == <<Txt("red")>>
Blue  == <<Txt("blue")>>

\* "a b": two numbers separated by a blank
Pair(a, b) == <<a, Txt(" "), b>>

\* "a b c"
Triple(a, b, c) == <<a, Txt(" "), b, Txt(" "), c>>

\* the attribute maps of the authored document; w1 carries a static transform
\* in the second document
DocAttrib(withTransform) ==
    [n \in Nodes |->
        IF n = "svg" THEN [id |-> <<Txt("svg")>>]
        ELSE IF n = "w1"
        THEN IF withTransform
             THEN [id |-> <<Txt("w1")>>, fill |-> Black,
                   transform |-> <<Txt("scale"), Txt("("), Int0(2), Txt(")")>>]
             ELSE [id |-> <<Txt("w1")>>, fill |-> Black]
        ELSE [id |-> <<Txt("w2")>>, fill |-> Black, x |-> <<Int0(5)>>]]

\* what an animation element animates: tag, attributeName, from, to, type
Effect(tag, name, from, to, type) ==
    [tag |-> tag, attrib_name |-> name, attrib_from |-> from, attrib_to |-> to,
     transform_type |-> type, path_str |-> "absent", path |-> NoPath, path_id |-> <<>>,
     attrib_rotate |-> ""]

\* an animateMotion element: its path attribute ("absent" when it has none)
\* and its rotate attribute; it has no mpath child, so that path_id stays ""
MotionEffect(path_str, rotate) ==
    [tag |-> "animateMotion", attrib_name |-> "", attrib_from |-> <<>>, attrib_to |-> <<>>,
     transform_type |-> "", path_str |-> path_str,
     path |-> IF path_str = "absent" THEN NoPath ELSE parse_path_str(path_str),
     path_id |-> <<>>, attrib_rotate |-> rotate]

Effects ==
    { Effect("set", "fill", <<>>, Red, ""),
      Effect("animate", "fill", Black, Red, ""),
      Effect("animate", "x", <<Int0(0)>>, <<Int0(10)>>, ""),
      Effect("animate", "x", <<Int0(0)>>, Pair(Int0(1), Int0(1)), ""),
      Effect("animateTransform", "transform", Pair(Int0(0), Int0(0)),
             Pair(Int0(10), Int0(0)), "translate"),
      Effect("animateTransform", "transform", Triple(Int0(350), Int0(5), Int0(5)),
             Triple(Int0(10), Int0(5), Int0(5)), "rotate"),
      Effect("animateTransform", "transform", <<Int0(1)>>, <<Int0(2)>>, "scale") }

Fills == {"", "freeze"}

\* Animator.__init__ and the subclass __init__: the animator of an animation
\* element with effect e, the timing attributes given, under target node n of
\* a document with attribute maps doc
Animator(e, n, doc, begin, dur, fill, rc, rd) ==
    [tag |-> e.tag, target |-> n, target_attrib |-> doc[n],
     begin |-> begin, dur |-> dur, fill |-> fill,
     repeatCount |-> rc, repeatDur |-> rd,
     attrib_name |-> e.attrib_name, attrib_from |-> e.attrib_from,
     attrib_to |-> e.attrib_to, transform_type |-> e.transform_type,
     path |-> e.path, path_id |-> e.path_id, attrib_rotate |-> e.attrib_rotate]

\* the animators the engine draws from: any effect on w1 or w2, with no repeat
EngineAnimators(doc) ==
    { Animator(e, n, doc, b, EngineDur, f, Absent, Absent) :
        e \in Effects, n \in {"w1", "w2"}, b \in 0..EngineMaxBegin, f \in Fills }

RepeatCounts == {Absent, Indefinite} \cup {Value(v) : v \in 1..MaxRc}

RepeatDurs == {Absent, Indefinite} \cup {Value(v) : v \in 0..MaxRd}

\* "rgb(n)"
Rgb(n) == <<Txt("rgb("), n, Txt(")")>>

\* the effects of the timing study: a set, and animate between words, between
\* numbers ("0" to "10", "0" to "10.000", "0" to "1 1") and between colours
TimingEffects ==
    { Effect("set", "fill", <<>>, Red, ""),
      Effect("animate", "fill", Black, Red, ""),
      Effect("animate", "x", <<Int0(0)>>, <<Int0(10)>>, ""),
      Effect("animate", "x", <<Int0(0)>>, <<Num(FALSE, 10000, 3)>>, ""),
      Effect("animate", "x", <<Int0(0)>>, Pair(Int0(1), Int0(1)), ""),
      Effect("animate", "fill", Rgb(Int0(0)), Rgb(Int0(255)), "") }

TimingAnimators ==
    { Animator(e, "w1", DocAttrib(FALSE), b, d, f, rc, rd) :
        e \in TimingEffects, b \in 0..MaxBegin, d \in 0..MaxDur, f \in Fills,
        rc \in RepeatCounts, rd \in RepeatDurs }

\* the fractions handed to the interpolator
Fractions == {Frac(k, FracDen) : k \in 0..FracDen}

\* numeric literals: "0", "10", "180", "350", "-10", "10.5", "10.000", "359.999"
Literals ==
    { Int0(0), Int0(10), Int0(180), Int0(350), Num(TRUE, 10, 0), Num(FALSE, 105, 1),
      Num(FALSE, 10000, 3), Num(FALSE, 359999, 3) }

\* the strings handed to the interpolator: a number, a word, "rgb(n)", "a b"
Strings ==
    {<<l>> : l \in Literals}
    \cup {Black, Red}
    \cup {Rgb(l) : l \in {Int0(0), Int0(10), Num(FALSE, 10000, 3)}}
    \cup {<<Txt("hsl("), Int0(0), Txt(")")>>}
    \cup {Pair(Int0(350), l) : l \in {Int0(10), Num(FALSE, 105, 1)}}

Mods == {NoMod, <<360>>, <<360, 0, 0>>}

\* no query has been made yet
NoTime == -1

----------------------------------------------------------------------------
(* Construction: get_animators, make_animator, Animator.__init__, xpath_id *)
(* A document is a record: attrib (node -> attribute map, as parsed) and   *)
(* decls, its animation elements in document order.  A declaration is a    *)
(* record: parent (the node it is a child of), href (the id after "#" of   *)
(* xlink:href, <<>> without one), effect, begin, dur, fill.                *)

\* "svgSnapshotElement" + str(NUM_IDS)
SnapshotId(n) == <<Txt("svgSnapshotElement"), Num(FALSE, n, 0)>>

\* svg.xpath('.//*[@id="..."]'): the descendants of the root with that id
xpath_targets(tree, id) ==
    {n \in Nodes \ {Root} : "id" \in DOMAIN tree[n] /\ tree[n]["id"] = id}

\* xpath_id(svg, id): ok = FALSE when it raises (no element, or several)
xpath_id(tree, id) ==
    LET targets == xpath_targets(tree, id)
    IN IF Cardinality(targets) # 1 THEN [ok |-> FALSE, node |-> Root]
       ELSE [ok |-> TRUE, node |-> CHOOSE n \in targets : TRUE]

\* the target id Animator.__init__ settles on: the href, else the id of the
\* parent get_animators handed down
target_id_of(decl, tree) ==
    IF decl.href # <<>> THEN decl.href ELSE tree[decl.parent]["id"]

\* one round of the loop of get_animators on an animation child: give the
\* parent an id when it has none, then make_animator; an exception of
\* xpath_id leaves get_animators, the counter and the tree as they are then
get_animators_step(st, decl) ==
    IF ~st.ok THEN st
    ELSE LET fresh == "id" \notin DOMAIN st.tree[decl.parent]
             tree1 == IF fresh
                      THEN [st.tree EXCEPT ![decl.parent] = SetAttr(@, "id", SnapshotId(st.num_ids))]
                      ELSE st.tree
             n1    == IF fresh THEN st.num_ids + 1 ELSE st.num_ids
             found == xpath_id(tree1, target_id_of(decl, tree1))
         IN IF ~found.ok
            THEN [ok |-> FALSE, tree |-> tree1, num_ids |-> n1, animators |-> st.animators]
            ELSE [ok |-> TRUE, tree |-> tree1, num_ids |-> n1,
                  animators |-> Append(st.animators,
                      Animator(decl.effect, found.node, tree1, decl.begin, decl.dur,
                               decl.fill, Absent, Absent))]

\* get_animators(svg, svg) with NUM_IDS = n on entry
get_animators(doc, n) ==
    LET done[i \in 0..Len(doc.decls)] ==
            IF i = 0 THEN [ok |-> TRUE, tree |-> doc.attrib, num_ids |-> n, animators |-> <<>>]
            ELSE get_animators_step(done[i - 1], doc.decls[i])
    IN done[Len(doc.decls)]

\* SnapshotSVG(doc) with NUM_IDS = n on entry: the engine (ok = FALSE when
\* the constructor raised and there is none) and NUM_IDS on exit
SnapshotSVG(doc, n) ==
    LET got == get_animators(doc, n)
    IN [ok |-> got.ok, source |-> doc, svg |-> got.tree,
        animators |-> IF got.ok THEN sorted_by_begin(got.animators) ELSE <<>>,
        now |-> NoTime, raised |-> FALSE, num_ids |-> got.num_ids]

\* a declaration
Decl(parent, href, effect, begin) ==
    [parent |-> parent, href |-> href, effect |-> effect, begin |-> begin,
     dur |-> EngineDur, fill |-> ""]

\* the attribute maps of a parsed document whose nodes w1 and w2 carry an id
\* or not
ParsedAttrib(id1, id2) ==
    [n \in Nodes |->
        IF n = "svg" THEN [id |-> <<Txt("svg")>>]
        ELSE IF n = "w1"
        THEN IF id1 THEN [id |-> <<Txt("w1")>>, fill |-> Black] ELSE [fill |-> Black]
        ELSE IF id2 THEN [id |-> <<Txt("w2")>>, fill |-> Black, x |-> <<Int0(5)>>]
             ELSE [fill |-> Black, x |-> <<Int0(5)>>]]

\* what the animation child of w1 does to #w2: it sets fill or x, or it adds
\* a translate or a scale
EffectsOnOther ==
    { Effect("set", "fill", <<>>, Blue, ""),
      Effect("set", "x", <<>>, <<Int0(7)>>, ""),
      Effect("animateTransform", "transform", Pair(Int0(0), Int0(0)),
             Pair(Int0(10), Int0(0)), "translate"),
      Effect("animateTransform", "transform", <<Int0(1)>>, <<Int0(2)>>, "scale") }

\* what the animation child of w2 does to its parent
EffectsOnParent ==
    { Effect("set", "fill", <<>>, Red, ""),
      MotionEffect("M0,0 L10,0", ""),
      Effect("animate", "x", <<Int0(0)>>, <<Int0(10)>>, ""),
      Effect("animateTransform", "transform", Pair(Int0(5), Int0(5)),
             Pair(Int0(5), Int0(5)), "translate"),
      Effect("animateTransform", "transform", <<Int0(3)>>, <<Int0(3)>>, "scale") }

\* the animation child of w1: a set (on its parent, on #w2, on an id no node
\* has), an animateMotion with a path, with a path that does not parse, and
\* with none, or an element that animates #w2
FirstDecls ==
    { Decl("w1", <<>>, Effect("set", "fill", <<>>, Red, ""), 0),
      Decl("w1", <<Txt("w2")>>, Effect("set", "fill", <<>>, Red, ""), 0),
      Decl("w1", <<Txt("nope")>>, Effect("set", "fill", <<>>, Red, ""), 0),
      Decl("w1", <<>>, MotionEffect("M0,0 L10,0", "auto"), 0),
      Decl("w1", <<>>, MotionEffect("M0,0 L0,10", "auto-reverse"), 0),
      Decl("w1", <<>>, MotionEffect("Q", ""), 0),
      Decl("w1", <<>>, MotionEffect("absent", ""), 0) }
    \cup { Decl("w1", <<Txt("w2")>>, e, b) : e \in EffectsOnOther, b \in 0..EngineMaxBegin }

\* the animation child of w2
SecondDecls ==
    { Decl("w2", <<>>, e, b) : e \in EffectsOnParent, b \in 0..EngineMaxBegin }

\* the documents of the construction study
BuildDocs ==
    { [attrib |-> ParsedAttrib(id1, id2), decls |-> <<d1, d2>>] :
        id1 \in BOOLEAN, id2 \in BOOLEAN, d1 \in FirstDecls, d2 \in SecondDecls }

\* another document of the same process: w1 has no id and one set
OtherDoc ==
    [attrib |-> ParsedAttrib(FALSE, TRUE),
     decls |-> <<Decl("w1", <<>>, Effect("set", "fill", <<>>, Red, ""), 0)>>]

----------------------------------------------------------------------------
(* Cue propagation of tei_to_svg.py: RASVComponent.addTimestamp and        *)
(* addMissingTimestamps on the component tree that Slideshow.layout leaves *)
(* (Slideshow, Slide, Sentence, Line, Token).  Times are whole hundredths  *)
(* of a second, so that the 0.01 of addMissingTimestamps is one tick.      *)

\* ticks in a second: the 0.01 s of addMissingTimestamps is one tick
TicksPerSecond == 100

\* HUGE_NUMBER, "no begin time yet": it stands above every time of the model
HUGE_NUMBER == 1000000000

\* the end_time -1.0 of a new component
NoEnd == -TicksPerSecond

\* begin_time and end_time of a component
Timed(b, e) == [begin_time |-> b, end_time |-> e]

\* RASVComponent.__init__: begin_time = HUGE_NUMBER, end_time = -1.0
Fresh == Timed(HUGE_NUMBER, NoEnd)

\* the components: a slideshow with one slide of two sentences; the first
\* sentence is laid out as one line of three tokens, the second as one line
\* of one token
CueNodes == {"show", "p1", "s1", "l1", "t1", "t2", "t3", "s2", "l2", "t4"}

\* the Slideshow, whose parent is None
CueRoot == "show"

\* self.children
CueChildren(n) ==
    CASE n = "show" -> <<"p1">>
      [] n = "p1"   -> <<"s1", "s2">>
      [] n = "s1"   -> <<"l1">>
      [] n = "l1"   -> <<"t1", "t2", "t3">>
      [] n = "s2"   -> <<"l2">>
      [] n = "l2"   -> <<"t4">>
      [] OTHER      -> <<>>

\* self.id: a Slideshow and a Line have the id ""
CueId(n) == IF n \in {"show", "l1", "l2"} THEN "" ELSE n

\* self.parent
CueParent(n) ==
    CHOOSE q \in CueNodes : \E k \in 1..Len(CueChildren(q)) : CueChildren(q)[k] = n

\* the place of n among the children of its parent
CuePlace(n) ==
    CHOOSE k \in 1..Len(CueChildren(CueParent(n))) : CueChildren(CueParent(n))[k] = n

\* no sibling: the None of getPreviousSibling and getNextSibling
NoNode == "None"

\* getPreviousSibling(self)
getPreviousSibling(n) ==
    IF CuePlace(n) = 1 THEN NoNode ELSE CueChildren(CueParent(n))[CuePlace(n) - 1]

\* getNextSibling(self)
getNextSibling(n) ==
    IF CuePlace(n) = Len(CueChildren(CueParent(n))) THEN NoNode
    ELSE CueChildren(CueParent(n))[CuePlace(n) + 1]

RECURSIVE addTimestamp(_, _, _, _, _)
RECURSIVE addTimestamp_children(_, _, _, _, _, _)

\* the loop of addTimestamp over self.children from the k-th child on: the
\* first child that finds the id ends it, and self takes min and max
addTimestamp_children(n, k, target_id, begin, end, tm) ==
    IF k > Len(CueChildren(n)) THEN [found |-> FALSE, times |-> tm]
    ELSE LET r == addTimestamp(CueChildren(n)[k], target_id, begin, end, tm)
         IN IF r.found
            THEN [found |-> TRUE,
                  times |-> [r.times EXCEPT ![n] =
                                Timed(Min(begin, @.begin_time), Max(end, @.end_time))]]
            ELSE addTimestamp_children(n, k + 1, target_id, begin, end, tm)

\* RASVComponent.addTimestamp(self, target_id, begin, end) on the times tm:
\* whether it returned True, and the times it leaves
addTimestamp(n, target_id, begin, end, tm) ==
    IF CueId(n) = target_id
    THEN [found |-> TRUE, times |-> [tm EXCEPT ![n] = Timed(begin, end)]]
    ELSE addTimestamp_children(n, 1, target_id, begin, end, tm)

\* fill_self that never stretches to the next sibling
fill_self_no_stretch(n, tm) ==
    LET previous_sibling == getPreviousSibling(n)
        begin == IF previous_sibling # NoNode THEN tm[previous_sibling].end_time
                 ELSE tm[CueParent(n)].begin_time
    IN [tm EXCEPT ![n] = Timed(begin, begin + 1)]

\* the block of addMissingTimestamps that gives self a begin and an end
fill_self(n, tm) ==
    LET previous_sibling == getPreviousSibling(n)
        next_sibling == getNextSibling(n)
        begin == IF previous_sibling # NoNode THEN tm[previous_sibling].end_time
                 ELSE tm[CueParent(n)].begin_time
        end == IF next_sibling # NoNode /\ tm[next_sibling].begin_time # HUGE_NUMBER
               THEN tm[next_sibling].begin_time
               ELSE begin + 1
    IN [tm EXCEPT ![n] = Timed(begin, end)]

RECURSIVE addMissingTimestamps(_, _, _)
RECURSIVE addMissingTimestamps_children(_, _, _, _)

\* the loop of addMissingTimestamps over self.children from the k-th child on
addMissingTimestamps_children(n, k, hl, st) ==
    IF k > Len(CueChildren(n)) \/ ~st.ok THEN st
    ELSE addMissingTimestamps_children(n, k + 1, hl,
             addMissingTimestamps(CueChildren(n)[k], hl, st))

\* RASVComponent.addMissingTimestamps(self) with the highlight flags hl on the
\* times st.times; on the Slideshow without a begin time
\* getPreviousSibling reads self.parent.children of the parent None and
\* raises (ok = FALSE)
addMissingTimestamps(n, hl, st) ==
    IF ~hl[n] THEN st
    ELSE IF st.times[n].begin_time = HUGE_NUMBER /\ n = CueRoot
    THEN [ok |-> FALSE, times |-> st.times]
    ELSE addMissingTimestamps_children(n, 1, hl,
            [ok |-> TRUE,
             times |-> IF st.times[n].begin_time = HUGE_NUMBER
                       THEN fill_self(n, st.times) ELSE st.times])

\* the ids the cues name: the four tokens and an id no component has
CueIds == {"t1", "t2", "t3", "t4", "nope"}

\* the clip times of a cue: whole seconds, in ticks, end >= begin
CueSpans ==
    { Timed(x[1] * TicksPerSecond, x[2] * TicksPerSecond) :
        x \in {y \in (0..CueMaxT) \X (0..CueMaxT) : y[1] <= y[2]} }

----------------------------------------------------------------------------
(* The bouncing ball of tei_to_svg.py: BouncingBall.addTimestamp and       *)
(* BouncingBall.compile.  Times are whole seconds.  The angles that        *)
(* get_angle_from_path reads off an arc's path are kept as terms of the    *)
(* arc's two end points.                                                   *)

\* RASVComponent.__getitem__(target_id) on component n: the first component
\* of n's subtree, in document order, whose id is target_id; NoNode for None
RECURSIVE component_getitem(_, _)
RECURSIVE component_getitem_children(_, _, _)
component_getitem(n, target_id) ==
    IF CueId(n) = target_id THEN n ELSE component_getitem_children(n, 1, target_id)

component_getitem_children(n, k, target_id) ==
    IF k > Len(CueChildren(n)) THEN NoNode
    ELSE LET result == component_getitem(CueChildren(n)[k], target_id)
         IN IF result # NoNode THEN result ELSE component_getitem_children(n, k + 1, target_id)

\* target.x + target.getWidth() / 2 and target.y - ball-clearance of the
\* tokens, as Slideshow.layout placed them on one line
TokenPos(n) ==
    CASE n = "t1" -> [x |-> 10, y |-> 40]
      [] n = "t2" -> [x |-> 30, y |-> 40]
      [] n = "t3" -> [x |-> 50, y |-> 40]
      [] OTHER    -> [x |-> 70, y |-> 60]

\* BouncingBallPosition(target_id, x, y, begin_time, end_time)
BouncingBallPosition(target_id, x, y, begin_time, end_time) ==
    [id |-> target_id, x |-> x, y |-> y, begin_time |-> begin_time,
     end_time |-> end_time, duration |-> end_time - begin_time]

\* BouncingBall.addTimestamp(target_id, begin_time, end_time) on the dict
\* positions ps: the dict it leaves
ball_addTimestamp(ps, target_id, begin_time, end_time) ==
    LET comp == component_getitem(CueRoot, target_id)
    IN IF comp = NoNode THEN ps
       ELSE [k \in DOMAIN ps \cup {begin_time} |->
                IF k = begin_time
                THEN BouncingBallPosition(target_id, TokenPos(comp).x, TokenPos(comp).y,
                                          begin_time, end_time)
                ELSE ps[k]]

\* sorted(list(S)), ascending
RECURSIVE sorted(_)
sorted(S) ==
    IF S = {} THEN <<>>
    ELSE LET m == CHOOSE x \in S : \A y \in S : x <= y
         IN <<m>> \o sorted(S \ {m})

\* a compile whose first loop shortens nothing
compile_clamp_none(ps, begin_times) ==
    ps

\* a first loop of compile that shortens one second too little
compile_clamp_late(ps, begin_times) ==
    [k \in DOMAIN ps |->
        LET i == CHOOSE j \in 1..Len(begin_times) : begin_times[j] = k
        IN IF i < Len(begin_times) /\ ps[k].end_time > begin_times[i + 1]
           THEN [ps[k] EXCEPT !.end_time = begin_times[i + 1] + 1]
           ELSE ps[k]]

\* the first loop of compile: a position whose end_time lies after the next
\* begin time ends at that begin time
compile_clamp(ps, begin_times) ==
    [k \in DOMAIN ps |->
        LET i == CHOOSE j \in 1..Len(begin_times) : begin_times[j] = k
        IN IF i < Len(begin_times) /\ ps[k].end_time > begin_times[i + 1]
           THEN [ps[k] EXCEPT !.end_time = begin_times[i + 1]]
           ELSE ps[k]]

\* the 0.0 an angle starts from
ZeroAngle == [of |-> "zero", from |-> 0, to |-> 0]

\* arcAnimation.get_angle_in() of the arc between the positions that begin
\* at time1 and time2
get_angle_in(time1, time2) == [of |-> "in", from |-> time1, to |-> time2]

\* arcAnimation.get_angle_out()
get_angle_out(time1, time2) == [of |-> "out", from |-> time1, to |-> time2]

\* BouncingBallBounceAnimation(config, pos1, invert) with its angles and its
\* freeze flag set; pos is the begin time of the position it holds at
BouncingBallBounceAnimation(time1, invert, angle_begin, angle_end, freeze) ==
    [kind |-> "bounce", pos |-> time1, pos2 |-> time1, invert |-> invert,
     angle_begin |-> angle_begin, angle_end |-> angle_end, freeze |-> freeze]

\* BouncingBallArcAnimation(config, pos1, pos2, invert)
BouncingBallArcAnimation(time1, time2, invert) ==
    [kind |-> "arc", pos |-> time1, pos2 |-> time2, invert |-> invert,
     angle_begin |-> get_angle_in(time1, time2), angle_end |-> get_angle_out(time1, time2),
     freeze |-> FALSE]

\* a compile that makes the arc to a position after the bounce at it
compile_animations_arc_last(begin_times) ==
    LET n == Len(begin_times)
        done[i \in 0..n] ==
            IF i = 0 THEN <<>>
            ELSE LET invert == (i % 2 = 0)
                 IN IF i = 1
                    THEN <<BouncingBallBounceAnimation(begin_times[i], invert, ZeroAngle,
                                                       ZeroAngle, i = n)>>
                    ELSE done[i - 1] \o
                         <<BouncingBallBounceAnimation(begin_times[i], invert,
                               get_angle_out(begin_times[i - 1], begin_times[i]),
                               ZeroAngle, i = n),
                           BouncingBallArcAnimation(begin_times[i - 1], begin_times[i], invert)>>
    IN done[n]

\* a compile whose invert flag never changes
compile_animations_no_invert(begin_times) ==
    LET n == Len(begin_times)
        done[i \in 0..n] ==
            IF i = 0 THEN <<>>
            ELSE LET angle_begin == IF i = 1 THEN ZeroAngle
                                    ELSE get_angle_out(begin_times[i - 1], begin_times[i])
                 IN IF i = n
                    THEN done[i - 1] \o
                         <<BouncingBallBounceAnimation(begin_times[i], FALSE, angle_begin,
                                                       ZeroAngle, TRUE)>>
                    ELSE done[i - 1] \o
                         <<BouncingBallBounceAnimation(begin_times[i], FALSE, angle_begin,
                               get_angle_in(begin_times[i], begin_times[i + 1]), FALSE),
                           BouncingBallArcAnimation(begin_times[i], begin_times[i + 1], FALSE)>>
    IN done[n]

\* the second loop of compile: the animations it appends, in order
compile_animations(begin_times) ==
    LET n == Len(begin_times)
        done[i \in 0..n] ==
            IF i = 0 THEN <<>>
            ELSE LET invert == (i % 2 = 0)
                     angle_begin == IF i = 1 THEN ZeroAngle
                                    ELSE get_angle_out(begin_times[i - 1], begin_times[i])
                 IN IF i = n
                    THEN done[i - 1] \o
                         <<BouncingBallBounceAnimation(begin_times[i], invert, angle_begin,
                                                       ZeroAngle, TRUE)>>
                    ELSE done[i - 1] \o
                         <<BouncingBallBounceAnimation(begin_times[i], invert, angle_begin,
                               get_angle_in(begin_times[i], begin_times[i + 1]), FALSE),
                           BouncingBallArcAnimation(begin_times[i], begin_times[i + 1], invert)>>
    IN done[n]

\* the times BouncingBallBounceAnimation.asSVG and
\* BouncingBallArcAnimation.asSVG read for animation a: a hold spans its
\* position's begin_time to end_time, an arc position1's end_time to
\* position2's begin_time
animation_times(a, ps) ==
    IF a.kind = "bounce"
    THEN Timed(ps[a.pos].begin_time, ps[a.pos].end_time)
    ELSE Timed(ps[a.pos].end_time, ps[a.pos2].begin_time)

\* assert(end_time >= begin_time) of the two asSVG methods
asSVG_assertion(a, ps) ==
    animation_times(a, ps).end_time >= animation_times(a, ps).begin_time

\* first_animation_begins before any compile (10000000000000.0): later than
\* every begin time, as HUGE_NUMBER is
NoFirstBegin == HUGE_NUMBER

\* the ids the ball's timestamps name: three tokens and an id no component has
BallIds == {"t1", "t2", "t3", "nope"}

\* the times of the ball's timestamps: end_time >= begin_time
BallSpans == { Timed(b, b + d) : b \in 0..BallMaxT, d \in 0..MaxBallDur }

----------------------------------------------------------------------------
(* Slideshow.pad_slides of tei_to_svg.py.  Times are Python floats: every   *)
(* + and - gives the representable number nearest to the exact result,     *)
(* ties to the even mantissa; a division by 2 is exact.  A time is written  *)
(* as a whole number of half seconds, and a float keeps MantissaBits        *)
(* significant bits of it.                                                  *)

RECURSIVE Pow2(_)
\* 2 ** k
Pow2(k) == IF k = 0 THEN 1 ELSE 2 * Pow2(k - 1)

RECURSIVE BitLength(_)
\* the number of bits of n >= 0
BitLength(n) == IF n = 0 THEN 0 ELSE 1 + BitLength(n \div 2)

\* the float nearest to the exact number n: n itself when MantissaBits bits
\* hold it, else n rounded to MantissaBits significant bits, ties to even
RoundFloat(n) ==
    LET a == IF n < 0 THEN -n ELSE n
    IN IF a < Pow2(MantissaBits) THEN n
       ELSE LET sh   == BitLength(a) - MantissaBits
                q    == a \div Pow2(sh)
                r    == a % Pow2(sh)
                half == Pow2(sh - 1)
                m    == IF r > half \/ (r = half /\ q % 2 = 1) THEN q + 1 ELSE q
            IN IF n < 0 THEN -(m * Pow2(sh)) ELSE m * Pow2(sh)

\* a + b of two floats
float_add(a, b) == RoundFloat(a + b)

\* a - b of two floats
float_sub(a, b) == RoundFloat(a - b)

\* gap / 2: exact (every gap of the model is an even number of half seconds)
float_half(gap) == gap \div 2

\* one round of the loop of pad_slides, on the pair of slides i and i + 1
pad_pair(sl, i) ==
    LET gap == float_sub(sl[i + 1].begin_time, sl[i].end_time)
    IN [sl EXCEPT ![i].end_time = float_add(@, float_half(gap)),
                  ![i + 1].begin_time = float_sub(@, float_half(gap))]

\* Slideshow.pad_slides(total_duration) on the slides sl: the slides it leaves
pad_slides(sl, total_duration) ==
    IF sl = <<>> THEN sl
    ELSE LET first == [sl EXCEPT ![1].begin_time = 0]
             last  == IF total_duration # 0
                      THEN [first EXCEPT ![Len(sl)].end_time = total_duration]
                      ELSE first
             done[i \in 0..(Len(sl) - 1)] ==
                 IF i = 0 THEN last ELSE pad_pair(done[i - 1], i)
         IN done[Len(sl) - 1]

\* the times of the padding study: floats that are whole seconds
PadTimes == {x \in 0..MaxPadTime : x % 2 = 0 /\ RoundFloat(x) = x}

\* the times of a slide before padding, as the cues left them: end >= begin
SlideTimes == {Timed(y[1], y[2]) : y \in {z \in PadTimes \X PadTimes : z[1] <= z[2]}}

\* the slides of a slideshow, in document order
Slideshows == UNION {[1..n -> SlideTimes] : n \in 0..MaxSlides}

----------------------------------------------------------------------------
(* The state machines *)

NoResult == <<Txt("<not called>")>>

InitEngineIdle ==
    /\ authored = DocAttrib(FALSE)
    /\ svg = DocAttrib(FALSE)
    /\ queries = 0
    /\ animators = <<>>
    /\ now = NoTime
    /\ raised = FALSE

InitTimingIdle ==
    /\ elem = Animator(Effect("set", "fill", <<>>, Red, ""), "w1", DocAttrib(FALSE),
                       0, 0, "", Absent, Absent)
    /\ tq = NoTime
    /\ pos = Inactive
    /\ target = DocAttrib(FALSE)["w1"]

InitInterpIdle ==
    /\ args = [s1 |-> <<>>, s2 |-> <<>>, p |-> Frac(0, 1), mod |-> NoMod]
    /\ out = NoResult

\* no addTimestamp call yet
NoCue == [target_id |-> "", begin |-> 0, end |-> 0, found |-> FALSE]

InitCueIdle ==
    /\ times = [n \in CueNodes |-> Fresh]
    /\ highlight = [n \in CueNodes |-> TRUE]
    /\ stage = "cues"
    /\ cue = NoCue
    /\ ncues = 0

InitBallIdle ==
    /\ positions = <<>>
    /\ animations = <<>>
    /\ first_animation_begins = NoFirstBegin
    /\ ballcues = 0
    /\ visited = {}
    /\ compiles = 0

\* no slideshow is being padded
InitPadIdle ==
    /\ slides = <<>>
    /\ padded = NoTime

InitBuildIdle ==
    /\ input = OtherDoc
    /\ NUM_IDS = 0
    /\ engines = <<>>

\* SnapshotSVG.__init__ on a document with two animation elements: the
\* animators in document order, sorted by begin; the tree holds the authored
\* attributes
Init ==
    /\ \E withTransform \in BOOLEAN :
         LET doc == DocAttrib(withTransform)
         IN /\ authored = doc
            /\ svg = doc
            /\ \E a1 \in EngineAnimators(doc), a2 \in EngineAnimators(doc) :
                  animators = sorted_by_begin(<<a1, a2>>)
    /\ now = NoTime
    /\ raised = FALSE
    /\ queries = 0
    /\ InitTimingIdle
    /\ InitInterpIdle
    /\ InitBuildIdle
    /\ InitCueIdle
    /\ InitBallIdle
    /\ InitPadIdle

\* frozen = snapshot_svg[t]
Query(t) ==
    /\ queries < MaxQueries
    /\ \E r \in {getitem(animators, t, svg)} :
          /\ svg' = r.tree
          /\ now' = t
          /\ raised' = ~r.ok
    /\ queries' = queries + 1
    /\ UNCHANGED <<authored, animators, timingVars, interpVars, buildVars, cueVars, ballVars, padVars>>

Next == \E t \in 0..EngineMaxT : Query(t)

Spec == Init /\ [][Next]_vars

\* the timing study: one animator on w1
InitTiming ==
    /\ elem \in TimingAnimators
    /\ tq = NoTime
    /\ pos = Inactive
    /\ target = elem.target_attrib
    /\ InitEngineIdle
    /\ InitInterpIdle
    /\ InitBuildIdle
    /\ InitCueIdle
    /\ InitBallIdle
    /\ InitPadIdle

\* one query of a tree with the single animator elem, at t
Evaluate(t) ==
    \E o \in {apply(elem, t, reset_target(elem, target))} :
       /\ tq' = t
       /\ pos' = get_time_position(elem, t)
       /\ target' = IF o.ok THEN motion_compile_elem(o.attrib) ELSE o.attrib
       /\ UNCHANGED <<elem, engineVars, interpVars, buildVars, cueVars, ballVars, padVars>>

NextTiming == \E t \in 0..MaxT : Evaluate(t)

SpecTiming == InitTiming /\ [][NextTiming]_vars

\* the interpolator study
InitInterp ==
    /\ args \in [s1 : Strings, s2 : Strings, p : Fractions, mod : Mods]
    /\ out = NoResult
    /\ InitEngineIdle
    /\ InitTimingIdle
    /\ InitBuildIdle
    /\ InitCueIdle
    /\ InitBallIdle
    /\ InitPadIdle

\* out = interpolate_values(s1, s2, pos, mod)
Interpolate ==
    /\ out = NoResult
    /\ out' = interpolate_values(args.s1, args.s2, args.p, args.mod)
    /\ UNCHANGED <<args, engineVars, timingVars, buildVars, cueVars, ballVars, padVars>>

NextInterp == Interpolate

SpecInterp == InitInterp /\ [][NextInterp]_vars

\* the construction study: a process that builds engines from fresh parses of
\* the document under study and of another document, and queries them
InitBuild ==
    /\ input \in BuildDocs
    /\ NUM_IDS = 0
    /\ engines = <<>>
    /\ InitEngineIdle
    /\ InitTimingIdle
    /\ InitInterpIdle
    /\ InitCueIdle
    /\ InitBallIdle
    /\ InitPadIdle

\* snapshot_svg = SnapshotSVG(tree), tree a fresh parse of doc
Build(doc) ==
    /\ Len(engines) < MaxBuilds
    /\ \E e \in {SnapshotSVG(doc, NUM_IDS)} :
          /\ engines' = Append(engines, e)
          /\ NUM_IDS' = e.num_ids
    /\ UNCHANGED <<input, engineVars, timingVars, interpVars, cueVars, ballVars, padVars>>

\* frozen = snapshot_svg[t] on the i-th engine built
QueryEngine(i, t) ==
    /\ queries < MaxQueries
    /\ engines[i].ok
    /\ \E r \in {getitem(engines[i].animators, t, engines[i].svg)} :
          engines' = [engines EXCEPT ![i].svg = r.tree, ![i].now = t, ![i].raised = ~r.ok]
    /\ queries' = queries + 1
    /\ UNCHANGED <<input, NUM_IDS, authored, svg, animators, now, raised,
                   timingVars, interpVars, cueVars, ballVars, padVars>>

NextBuild ==
    \/ Build(input)
    \/ Build(OtherDoc)
    \/ \E i \in 1..Len(engines), t \in 0..EngineMaxT : QueryEngine(i, t)

SpecBuild == InitBuild /\ [][NextBuild]_vars

\* the cue tree after Slideshow.layout: every component is new; the second
\* sentence is marked highlight="false" or not
InitCues ==
    /\ times = [n \in CueNodes |-> Fresh]
    /\ \E h \in BOOLEAN : highlight = [n \in CueNodes |-> IF n = "s2" THEN h ELSE TRUE]
    /\ stage = "cues"
    /\ cue = NoCue
    /\ ncues = 0
    /\ InitEngineIdle
    /\ InitTimingIdle
    /\ InitInterpIdle
    /\ InitBuildIdle
    /\ InitBallIdle
    /\ InitPadIdle

\* one round of the loop of add_all_timestamps: the tree's part of
\* self.addTimestamp(target_id, begin, end)
AddTimestamp(target_id, span) ==
    /\ stage = "cues"
    /\ ncues < MaxCues
    /\ \E r \in {addTimestamp(CueRoot, target_id, span.begin_time, span.end_time, times)} :
          /\ times' = r.times
          /\ cue' = [target_id |-> target_id, begin |-> span.begin_time,
                     end |-> span.end_time, found |-> r.found]
    /\ ncues' = ncues + 1
    /\ UNCHANGED <<highlight, stage, engineVars, timingVars, interpVars, buildVars, ballVars, padVars>>

\* the last statement of add_all_timestamps: self.addMissingTimestamps()
AddMissingTimestamps ==
    /\ stage = "cues"
    /\ \E r \in {addMissingTimestamps(CueRoot, highlight, [ok |-> TRUE, times |-> times])} :
          /\ times' = r.times
          /\ stage' = IF r.ok THEN "filled" ELSE "raised"
    /\ UNCHANGED <<highlight, cue, ncues, engineVars, timingVars, interpVars, buildVars, ballVars, padVars>>

NextCues ==
    \/ \E target_id \in CueIds, span \in CueSpans : AddTimestamp(target_id, span)
    \/ AddMissingTimestamps

SpecCues == InitCues /\ [][NextCues]_vars

\* a new BouncingBall
InitBall ==
    /\ positions = <<>>
    /\ animations = <<>>
    /\ first_animation_begins = NoFirstBegin
    /\ ballcues = 0
    /\ visited = {}
    /\ compiles = 0
    /\ InitEngineIdle
    /\ InitTimingIdle
    /\ InitInterpIdle
    /\ InitBuildIdle
    /\ InitCueIdle
    /\ InitPadIdle

\* self.ball.addTimestamp(target_id, begin, end), before the ball is compiled
BallAddTimestamp(target_id, span) ==
    /\ compiles = 0
    /\ ballcues < MaxBallCues
    /\ positions' = ball_addTimestamp(positions, target_id, span.begin_time, span.end_time)
    /\ ballcues' = ballcues + 1
    /\ visited' = visited \cup (LET comp == component_getitem(CueRoot, target_id)
                                 IN IF comp = NoNode THEN {} ELSE {comp})
    /\ UNCHANGED <<animations, first_animation_begins, compiles,
                   engineVars, timingVars, interpVars, buildVars, cueVars, padVars>>

\* self.ball.compile()
Compile ==
    /\ compiles < MaxCompiles
    /\ \E begin_times \in {sorted(DOMAIN positions)} :
          /\ positions' = compile_clamp(positions, begin_times)
          /\ animations' = animations \o compile_animations(begin_times)
          /\ first_animation_begins' =
                IF begin_times = <<>> THEN first_animation_begins
                ELSE Min(begin_times[1], first_animation_begins)
    /\ compiles' = compiles + 1
    /\ UNCHANGED <<ballcues, visited, engineVars, timingVars, interpVars, buildVars, cueVars,
                   padVars>>

NextBall ==
    \/ \E target_id \in BallIds, span \in BallSpans : BallAddTimestamp(target_id, span)
    \/ Compile

SpecBall == InitBall /\ [][NextBall]_vars

\* the padding study: a slideshow whose slides carry their times
InitPad ==
    /\ slides \in Slideshows
    /\ padded = NoTime
    /\ InitEngineIdle
    /\ InitTimingIdle
    /\ InitInterpIdle
    /\ InitBuildIdle
    /\ InitCueIdle
    /\ InitBallIdle

\* slideshow.pad_slides(total_duration)
PadSlides(total_duration) ==
    /\ padded = NoTime
    /\ slides' = pad_slides(slides, total_duration)
    /\ padded' = total_duration
    /\ UNCHANGED <<engineVars, timingVars, interpVars, buildVars, cueVars, ballVars>>

NextPad == \E total_duration \in PadTimes : PadSlides(total_duration)

SpecPad == InitPad /\ [][NextPad]_vars

----------------------------------------------------------------------------
(* Properties of the snapshot engine (Spec) *)

\* the animators whose target is node n
Targeting(n) == {i \in 1..Len(animators) : animators[i].target = n}

\* the first query of a freshly built engine at t: the tree it leaves and
\* whether it returned
FirstQuery(t) == getitem(animators, t, authored)

InactiveAt(a, t) ==
    \/ t < a.begin
    \/ t > a.begin + a.dur /\ a.fill # "freeze"

Contains(s, tok) == \E i \in 1..Len(s) : s[i] = tok

\* the place of the first occurrence of tok in s
PlaceOf(s, tok) == CHOOSE i \in 1..Len(s) : s[i] = tok /\ \A j \in 1..(i - 1) : s[j] # tok

\* node n has a translate and a rotate Transform primitive, both active at the
\* time of the last query, and the query returned
BothTransformsActive(n) ==
    /\ now # NoTime
    /\ ~raised
    /\ \E i, j \in Targeting(n) :
          /\ animators[i].tag = "animateTransform"
          /\ animators[j].tag = "animateTransform"
          /\ animators[i].transform_type = "translate"
          /\ animators[j].transform_type = "rotate"
          /\ get_time_position(animators[i], now).num >= 0
          /\ get_time_position(animators[j], now).num >= 0

\* the transform of node n holds a translate and a rotate fragment
HasBothFragments(n) ==
    /\ "transform" \in DOMAIN svg[n]
    /\ Contains(svg[n]["transform"], Txt("translate"))
    /\ Contains(svg[n]["transform"], Txt("rotate"))

\* C5 as claimed: with a translate and a rotate primitive both active on a
\* node, its transform holds both fragments, translate before rotate
C5_Original ==
    \A n \in Nodes :
        BothTransformsActive(n) =>
            /\ HasBothFragments(n)
            /\ PlaceOf(svg[n]["transform"], Txt("translate"))
                 < PlaceOf(svg[n]["transform"], Txt("rotate"))

\* C5 amended: with a translate and a rotate primitive both active on a node,
\* its transform holds both fragments, the rotate fragment before the
\* translate fragment, both before the authored transform
C5_RotateBeforeTranslate ==
    \A n \in Nodes :
        BothTransformsActive(n) =>
            /\ HasBothFragments(n)
            /\ PlaceOf(svg[n]["transform"], Txt("rotate"))
                 < PlaceOf(svg[n]["transform"], Txt("translate"))
            /\ "transform" \in DOMAIN authored[n] =>
                  PlaceOf(svg[n]["transform"], Txt("translate"))
                   < PlaceOf(svg[n]["transform"], Txt("scale"))

\* w1 has an authored transform and an active translate and an active rotate
\* primitive, and its transform holds both fragments
C5_Witness ==
    /\ BothTransformsActive("w1")
    /\ "transform" \in DOMAIN authored["w1"]
    /\ HasBothFragments("w1")

----------------------------------------------------------------------------
(* Properties of the timing model and of one primitive (SpecTiming) *)

\* elem has neither repeatCount nor repeatDur
NoRepeat(a) == a.repeatCount.kind = "absent" /\ a.repeatDur.kind = "absent"

\* the numeric tokens of the value s
NumbersOf(s) == SelectSeq(s, isfloat)

\* the value from with each number replaced by the number of to at the same
\* rank, printed with three decimals
ToPrinted(from, to) ==
    [i \in 1..Len(from) |->
        IF isfloat(from[i])
        THEN Format3(FloatOf(NumbersOf(to)[NumRank(from, i)]), 1)
        ELSE from[i]]

\* elem is an Interpolate primitive with fill=freeze and no repeat, queried
\* after begin + dur
FrozenInterpolate ==
    /\ tq # NoTime
    /\ elem.tag = "animate"
    /\ elem.fill = "freeze"
    /\ NoRepeat(elem)
    /\ elem.dur > 0
    /\ tq > elem.begin + elem.dur

C6_InactiveBeforeBeginOrNoDuration ==
    (tq # NoTime /\ (tq < elem.begin \/ elem.dur <= 0)) =>
        /\ pos = Inactive
        /\ target = elem.target_attrib

\* a freezing primitive with a repeat count was queried before its begin
C6_Witness ==
    /\ tq # NoTime
    /\ tq < elem.begin
    /\ elem.dur > 0
    /\ elem.fill = "freeze"
    /\ elem.repeatCount.kind = "value"
    /\ pos = Inactive

\* C7 as claimed: with begin >= 0 and dur > 0 the phase at t = begin is
\* active with fraction 0, whatever the repeat attributes and fill
C7_Original ==
    (tq # NoTime /\ elem.begin >= 0 /\ elem.dur > 0 /\ tq = elem.begin) =>
        pos.num = 0

\* repeatCount is absent, indefinite or at least one cycle
CountAtLeastOne(a) == a.repeatCount.kind = "value" => a.repeatCount.val >= RcDen

\* repeatDur is absent, indefinite or positive
DurPositive(a) == a.repeatDur.kind = "value" => a.repeatDur.val > 0

\* C7 amended: with begin >= 0, dur > 0, a repeat count that is absent,
\* indefinite or at least 1 and a repeat duration that is absent, indefinite
\* or positive, the phase at t = begin is active with fraction 0
C7_ZeroAtBegin ==
    (/\ tq # NoTime /\ elem.begin >= 0 /\ elem.dur > 0 /\ tq = elem.begin
     /\ CountAtLeastOne(elem) /\ DurPositive(elem)) =>
        pos.num = 0

\* a primitive with a repeat count and a repeat duration was queried at its
\* begin, later than 0
C7_Witness ==
    /\ tq = elem.begin
    /\ elem.begin > 0
    /\ elem.dur > 0
    /\ elem.repeatCount.kind = "value"
    /\ elem.repeatDur.kind = "value"
    /\ CountAtLeastOne(elem) /\ DurPositive(elem)
    /\ pos.num = 0

\* the fractions a and b are the same number
FracEq(a, b) == a.num * b.den = b.num * a.den

\* the active window of a is finite
FiniteWindow(a) ==
    NoRepeat(a) \/ a.repeatCount.kind = "value" \/ a.repeatDur.kind = "value"

\* the length of the active window of a, in 1/RcDen ticks: dur without repeat
\* attributes, else the smaller of repeatCount * dur and repeatDur
WindowLength(a) ==
    IF NoRepeat(a) THEN a.dur * RcDen
    ELSE IF a.repeatCount.kind = "value" /\ a.repeatDur.kind = "value"
    THEN Min(a.repeatCount.val * a.dur, a.repeatDur.val * RcDen)
    ELSE IF a.repeatCount.kind = "value" THEN a.repeatCount.val * a.dur
    ELSE a.repeatDur.val * RcDen

\* t is after the end of the finite active window of a
AfterWindow(a, t) ==
    /\ a.dur > 0
    /\ FiniteWindow(a)
    /\ (t - a.begin) * RcDen > WindowLength(a)

\* what one query at t leaves in the target of elem
TargetAt(t) ==
    Bind(apply(elem, t, reset_target(elem, target)),
         LAMBDA o : IF o.ok THEN motion_compile_elem(o.attrib) ELSE o.attrib)

\* the last query and a query at t2 give the same fraction and the same target
SameFrozenState(t2) ==
    /\ FracEq(pos, get_time_position(elem, t2))
    /\ target = TargetAt(t2)

DurEndsBeforeCount(a) ==
    /\ a.repeatCount.kind = "value"
    /\ a.repeatDur.kind = "value"
    /\ a.repeatDur.val * RcDen < a.repeatCount.val * a.dur

----------------------------------------------------------------------------
(* Properties of the value interpolator (SpecInterp) *)

\* interpolate_values(s, s, f) was called, without modulus
SameEndpoints ==
    /\ out # NoResult
    /\ args.s1 = args.s2
    /\ args.mod = NoMod

\* the value s with each number printed with three decimals
Printed(s) ==
    [i \in 1..Len(s) |-> IF isfloat(s[i]) THEN Format3(FloatOf(s[i]), 1) ELSE s[i]]

\* C9 as claimed: interpolate_values(s, s, f) returns s unchanged
C9_Original == SameEndpoints => out = args.s1

\* C9 amended: interpolate_values(s, s, f) returns s with each number printed
\* with three decimals and every other token unchanged, whatever f is; it
\* returns s unchanged when the numbers of s are written with three decimals
C9_SameEndpointsPrinted ==
    SameEndpoints =>
        /\ out = Printed(args.s1)
        /\ (\A i \in 1..Len(args.s1) :
               isfloat(args.s1[i]) => args.s1[i].d = Decimals) => out = args.s1

\* "rgb(10)" interpolated with itself at a fraction inside (0, 1) came back
\* as "rgb(10.000)"
C9_Witness ==
    /\ SameEndpoints
    /\ args.s1 = Rgb(Int0(10))
    /\ args.p.num > 0 /\ args.p.num < args.p.den
    /\ out = Rgb(Num(FALSE, 10000, 3))

\* interpolate_values was called on two single numbers with one modulus m > 0
ModularPair ==
    /\ out # NoResult
    /\ Len(args.s1) = 1 /\ isfloat(args.s1[1])
    /\ Len(args.s2) = 1 /\ isfloat(args.s2[1])
    /\ args.mod # NoMod /\ Len(args.mod) = 1 /\ args.mod[1] > 0

\* the modulus, in thousandths
ModulusOf(a) == a.mod[1] * Pow10(Decimals)

\* the distance between x and y around a circle of circumference M
CircularDistance(x, y, M) == Min(PyMod(x - y, M), PyMod(y - x, M))

\* the printed result is, up to the rounding of the third decimal, the point
\* at fraction p of the shorter arc from v1 to v2
OnShorterArc ==
    LET M  == ModulusOf(args)
        v1 == FloatOf(args.s1[1])
        v2 == FloatOf(args.s2[1])
        r  == FloatOf(out[1])
        d  == CircularDistance(v1, v2, M)
    IN /\ 2 * Abs(args.p.den * CircularDistance(v1, r, M) - args.p.num * d) <= args.p.den
       /\ 2 * Abs(args.p.den * CircularDistance(r, v2, M)
                  - (args.p.den - args.p.num) * d) <= args.p.den

\* "350" to "10" at 0.5 with modulus 360 gives "0.000"
WrapExample ==
    (/\ args.s1 = <<Int0(350)>> /\ args.s2 = <<Int0(10)>>
     /\ 2 * args.p.num = args.p.den /\ args.mod = <<360>>) =>
        out = <<Num(FALSE, 0, 3)>>

\* C10 as claimed: the result of a modular interpolation lies on the shorter
\* arc and in [0, m), and 350 to 10 at 0.5 with modulus 360 gives "0.000"
C10_Original ==
    ModularPair =>
        /\ OnShorterArc
        /\ 0 <= FloatOf(out[1]) /\ FloatOf(out[1]) < ModulusOf(args)
        /\ WrapExample

\* C10 amended: the interpolation runs along the shorter arc and is reduced
\* into [0, m) before it is printed with three decimals, so that the printed
\* result lies in [0, m] and reads m when the reduced number rounds up to it;
\* 350 to 10 at 0.5 with modulus 360 gives "0.000"
C10_ShorterArcWithinModulus ==
    ModularPair =>
        /\ OnShorterArc
        /\ 0 <= FloatOf(out[1]) /\ FloatOf(out[1]) <= ModulusOf(args)
        /\ WrapExample

\* "350" to "10" at 0.5 with modulus 360 was interpolated and gave "0.000"
C10_Witness ==
    /\ ModularPair
    /\ args.s1 = <<Int0(350)>> /\ args.s2 = <<Int0(10)>>
    /\ 2 * args.p.num = args.p.den
    /\ out = <<Num(FALSE, 0, 3)>>

\* the non-numeric tokens of a value, in order
TextOf(s) == SelectSeq(s, LAMBDA tok : ~isfloat(tok))

\* a non-numeric token of s1 differs from the non-numeric token at the same
\* position of s2
TextDiffers(s1, s2) ==
    \E i \in 1..Min(Len(TextOf(s1)), Len(TextOf(s2))) : TextOf(s1)[i] # TextOf(s2)[i]

\* C11: interpolate_values reports an error whenever a non-numeric token of
\* s1 differs from the non-numeric token at the same position of s2
C11_Original ==
    (out # NoResult /\ TextDiffers(args.s1, args.s2)) => out = Raise

----------------------------------------------------------------------------
(* Properties of the construction (SpecBuild) *)

\* the declarations of doc whose xlink:href names an id no node of doc carries
MissingTargets(doc) ==
    {k \in 1..Len(doc.decls) :
        /\ doc.decls[k].href # <<>>
        /\ \A n \in Nodes : "id" \in DOMAIN doc.attrib[n] => doc.attrib[n]["id"] # doc.decls[k].href}

\* C12: when an animation declaration references a target id absent from the
\* tree, building the engine succeeds, the other primitives are extracted
\* and no query raises
C12_Original ==
    \A i \in 1..Len(engines) :
        MissingTargets(engines[i].source) # {} =>
            /\ engines[i].ok
            /\ Len(engines[i].animators)
                  = Len(engines[i].source.decls) - Cardinality(MissingTargets(engines[i].source))
            /\ ~engines[i].raised

\* the Motion primitives of an engine that hold no parsed path
PathlessMotions(e) ==
    {k \in 1..Len(e.animators) :
        e.animators[k].tag = "animateMotion" /\ ~e.animators[k].path.ok}

\* C13: a Motion primitive whose path cannot be parsed, or which has none, is
\* inactive at every query time: the query raises no error and the target
\* carries no translate or rotate fragment
C13_Original ==
    \A i \in 1..Len(engines) :
        (engines[i].ok /\ engines[i].now # NoTime) =>
            \A k \in PathlessMotions(engines[i]) :
                /\ ~engines[i].raised
                /\ "data-motion-translate" \notin DOMAIN engines[i].svg[engines[i].animators[k].target]
                /\ "data-motion-rotate" \notin DOMAIN engines[i].svg[engines[i].animators[k].target]

\* the id attribute of node n in the tree of engine e, <<>> when it has none
IdOf(e, n) == GetAttr(e.svg[n], "id", <<>>)

\* two engines built from equal input trees gave every node the same id
SameIdsForEqualTrees ==
    \A i, j \in 1..Len(engines) :
        (engines[i].ok /\ engines[j].ok /\ engines[i].source = engines[j].source) =>
            \A n \in Nodes : IdOf(engines[i], n) = IdOf(engines[j], n)

\* C19: synthesized ids are deterministic given the same input tree (two
\* engines built in one process from equal trees assign the same id to the
\* same node), and an id once assigned does not change across queries
C19_Original ==
    [][ /\ SameIdsForEqualTrees'
        /\ \A i \in 1..Len(engines) : \A n \in Nodes :
              IdOf(engines'[i], n) = IdOf(engines[i], n) ]_vars

----------------------------------------------------------------------------
(* Properties of cue propagation (SpecCues) *)

\* the ancestors of a component, from its parent up to the slideshow
RECURSIVE CueAncestors(_)
CueAncestors(n) ==
    IF n = CueRoot THEN {} ELSE {CueParent(n)} \cup CueAncestors(CueParent(n))

\* the descendants of a component
CueDescendants(n) == {d \in CueNodes : n \in CueAncestors(d)}

\* the component carries a cue
HasCue(tm, n) == tm[n].begin_time # HUGE_NUMBER \/ tm[n].end_time # NoEnd

\* the cue of n is the envelope of the cues of the components of D
IsEnvelope(n, D) ==
    /\ \A d \in D : times[n].begin_time <= times[d].begin_time
    /\ \E d \in D : times[n].begin_time = times[d].begin_time
    /\ \A d \in D : times[n].end_time >= times[d].end_time
    /\ \E d \in D : times[n].end_time = times[d].end_time

\* C14: once the explicit cues are added and addMissingTimestamps has run,
\* every internal node that has a cue has begin equal to the minimum begin
\* and end equal to the maximum end over its descendants' cues
C14_Original ==
    stage = "filled" =>
        \A n \in CueNodes :
            (CueChildren(n) # <<>> /\ HasCue(times, n)) =>
                LET D == {d \in CueDescendants(n) : HasCue(times, d)}
                IN D # {} /\ IsEnvelope(n, D)

\* gap filling reaches the component: it and its ancestors are highlightable
Reached(n) == highlight[n] /\ \A a \in CueAncestors(n) : highlight[a]

\* the three sibling leaves carry the cues [0,1], none, [3,4]
GapExample(tm) ==
    /\ tm["t1"] = Timed(0, TicksPerSecond)
    /\ tm["t2"] = Fresh
    /\ tm["t3"] = Timed(3 * TicksPerSecond, 4 * TicksPerSecond)

\* C15: gap filling gives a highlightable node that has no cue when it runs
\* begin = its previous sibling's end (its parent's begin when it is the first
\* child) and end = begin + 0.01, or the next sibling's begin when the next
\* sibling had a begin before gap filling; three sibling leaves given the two
\* cues [0,1] and [3,4], the middle one none, end as [0,1], [1,3], [3,4]
\* under a parent cued [0,4]
C15_GapFilling ==
    [][ (stage = "cues" /\ stage' = "filled") =>
          /\ \A n \in CueNodes \ {CueRoot} :
                (Reached(n) /\ times[n].begin_time = HUGE_NUMBER) =>
                    /\ times'[n].begin_time =
                          IF getPreviousSibling(n) # NoNode
                          THEN times'[getPreviousSibling(n)].end_time
                          ELSE times'[CueParent(n)].begin_time
                    /\ times'[n].end_time =
                          IF /\ getNextSibling(n) # NoNode
                             /\ times[getNextSibling(n)].begin_time # HUGE_NUMBER
                          THEN times[getNextSibling(n)].begin_time
                          ELSE times'[n].begin_time + 1
          /\ \A n \in CueNodes : times[n].begin_time # HUGE_NUMBER => times'[n] = times[n]
          /\ (ncues = 2 /\ GapExample(times)) =>
                /\ times'["t2"] = Timed(TicksPerSecond, 3 * TicksPerSecond)
                /\ times'["l1"] = Timed(0, 4 * TicksPerSecond) ]_vars

\* the leaves cued [0,1], none, [3,4] were gap-filled: the middle leaf reads
\* [1,3] and the line [0,4]
C15_Witness ==
    /\ stage = "filled"
    /\ ncues = 2
    /\ times["t1"] = Timed(0, TicksPerSecond)
    /\ times["t2"] = Timed(TicksPerSecond, 3 * TicksPerSecond)
    /\ times["t3"] = Timed(3 * TicksPerSecond, 4 * TicksPerSecond)
    /\ times["l1"] = Timed(0, 4 * TicksPerSecond)

\* a comes before b among the children of one parent
SiblingsInOrder(a, b) ==
    /\ a # CueRoot /\ b # CueRoot
    /\ CueParent(a) = CueParent(b)
    /\ CuePlace(a) < CuePlace(b)

\* C16: after add_all_timestamps, for cues that each have end >= begin, every
\* node (that carries a cue) has end >= begin and any two cued siblings in
\* document order satisfy first.end <= second.begin
C16_Original ==
    stage = "filled" =>
        /\ \A n \in CueNodes :
              HasCue(times, n) => times[n].end_time >= times[n].begin_time
        /\ \A a, b \in CueNodes :
              (SiblingsInOrder(a, b) /\ HasCue(times, a) /\ HasCue(times, b)) =>
                  times[a].end_time <= times[b].begin_time

\* the component is marked non-highlightable, or lies below one that is
Excluded(n) == ~Reached(n)

\* the components an id names
Named(target_id) == {n \in CueNodes : CueId(n) = target_id}

\* C20: a node marked non-highlightable and its descendants never receive a
\* begin/end, and an explicit cue naming one of them does not change the
\* begin/end of any ancestor
C20_Original ==
    [][ /\ \A n \in CueNodes : Excluded(n) => times'[n] = Fresh
        /\ ncues' = ncues + 1 =>
              \A n \in Named(cue'.target_id) :
                  Excluded(n) => \A a \in CueAncestors(n) : times'[a] = times[a] ]_vars

----------------------------------------------------------------------------
(* Properties of the bouncing ball (SpecBall) *)

\* the step is one run of BouncingBall.compile
Compiled == compiles' = compiles + 1

\* the begin time of the position that follows the one beginning at k;
\* NoTime after the last
NextBegin(ps, k) ==
    IF \E j \in DOMAIN ps : j > k
    THEN CHOOSE j \in DOMAIN ps : j > k /\ \A q \in DOMAIN ps : q > k => j <= q
    ELSE NoTime

\* C17: after BouncingBall.compile the waypoints, in ascending begin order,
\* do not overlap: each ends no later than the next begins, one that ended
\* after the next begin ends at that begin, and one that did not overlap
\* (the last included) keeps its end.
C17_NonOverlapping ==
    [][ Compiled =>
          /\ DOMAIN positions' = DOMAIN positions
          /\ \A k \in DOMAIN positions :
                LET time2 == NextBegin(positions, k)
                IN /\ positions'[k].begin_time = k
                   /\ time2 # NoTime => positions'[k].end_time <= time2
                   /\ (time2 # NoTime /\ positions[k].end_time > time2)
                         => positions'[k].end_time = time2
                   /\ (time2 = NoTime \/ positions[k].end_time <= time2)
                         => positions'[k].end_time = positions[k].end_time ]_vars

\* a compiled ball with a waypoint that was shortened and another, not the
\* last, that kept its end
C17_Witness ==
    /\ compiles = 1
    /\ \E k \in DOMAIN positions :
          /\ positions[k].end_time < k + positions[k].duration
          /\ positions[k].end_time = NextBegin(positions, k)
    /\ \E k \in DOMAIN positions :
          /\ NextBegin(positions, k) # NoTime
          /\ positions[k].end_time = k + positions[k].duration

\* the animations the step appended
Emitted == SubSeq(animations', Len(animations) + 1, Len(animations'))

\* E is n holds and n - 1 arcs in the order hold, arc, hold, ..., hold, the
\* holds in ascending begin order, one hold for each of the components in
\* leaves, the arcs joining consecutive holds
HoldsAndArcs(E, n, leaves, ps) ==
    /\ Len(E) = 2 * n - 1
    /\ \A i \in 1..Len(E) : E[i].kind = (IF i % 2 = 1 THEN "bounce" ELSE "arc")
    /\ Cardinality({i \in 1..Len(E) : E[i].kind = "bounce"}) = n
    /\ Cardinality({i \in 1..Len(E) : E[i].kind = "arc"}) = n - 1
    /\ \A i \in 1..Len(E) : E[i].pos \in DOMAIN ps /\ E[i].pos2 \in DOMAIN ps
    /\ \A i \in 1..(n - 1) :
          /\ E[2 * i - 1].pos < E[2 * i + 1].pos
          /\ E[2 * i].pos = E[2 * i - 1].pos
          /\ E[2 * i].pos2 = E[2 * i + 1].pos
    /\ \A c \in leaves :
          Cardinality({i \in 1..Len(E) : E[i].kind = "bounce" /\ ps[E[i].pos].id = CueId(c)}) = 1

\* the ball was given n >= 1 timestamps and they name n distinct tokens
DistinctLeaves(n) ==
    /\ n >= 1
    /\ ballcues = n
    /\ Cardinality(visited) = n
    /\ \A c \in visited : CueChildren(c) = <<>>

\* C18 as stated: n cues on n distinct leaves give, in one compile, n holds
\* and n - 1 arcs in the order hold, arc, ..., hold, the holds ascending by
\* begin and one per cued leaf.
C18_Original ==
    [][ Compiled =>
          \A n \in 1..ballcues :
              DistinctLeaves(n) => HoldsAndArcs(Emitted, n, visited, positions') ]_vars

\* C18, amended: the same, for cues whose begin times are pairwise distinct
\* (the positions are kept by begin time, so n cues leave n positions
\* exactly when no two of them begin together).
C18_DistinctBegins ==
    [][ Compiled =>
          \A n \in 1..ballcues :
              (DistinctLeaves(n) /\ Cardinality(DOMAIN positions) = n)
                  => HoldsAndArcs(Emitted, n, visited, positions') ]_vars

\* three cues beginning at 0, 2 and 5 on three tokens, compiled into 3 holds
\* and 2 arcs
C18_Witness ==
    /\ compiles = 1
    /\ ballcues = 3
    /\ Cardinality(visited) = 3
    /\ DOMAIN positions = {0, 2, 5}
    /\ Len(animations) = 5
    /\ Cardinality({i \in 1..Len(animations) : animations[i].kind = "bounce"}) = 3
    /\ Cardinality({i \in 1..Len(animations) : animations[i].kind = "arc"}) = 2

----------------------------------------------------------------------------
(* Further properties of the timing (SpecTiming) *)

\* the primitive was queried at a time t >= begin and has a positive duration
QueriedFromBegin ==
    /\ tq # NoTime
    /\ tq >= elem.begin
    /\ elem.dur > 0

\* cycle = floor((t - begin) / duration) + 1 at the queried time
CycleAt(a, t) == FloorDiv(t - a.begin, a.dur) + 1

\* the repeat count of a is finite and the cycle at t lies beyond it
CountExpired(a, t) ==
    /\ a.repeatCount.kind = "value"
    /\ CycleAt(a, t) * RcDen > a.repeatCount.val

\* the repeat duration of a is finite and has run out at t
DurExpired(a, t) ==
    /\ a.repeatDur.kind = "value"
    /\ t - a.begin >= a.repeatDur.val

\* the phase is active with fraction ((t - begin) mod duration) / duration
ActiveAt(a, t) ==
    /\ FracEq(pos, Frac(PyMod(t - a.begin, a.dur), a.dur))
    /\ pos.num >= 0
    /\ pos.num < pos.den

\* C21: with a finite repeat count and t >= begin, a cycle beyond the count
\* gives fraction 1.0 under fill=freeze and Inactive otherwise; a cycle within
\* the count, no repeat duration having run out, gives the active fraction
\* ((t - begin) mod duration) / duration
C21_RepeatCountPhase ==
    (QueriedFromBegin /\ elem.repeatCount.kind = "value") =>
        IF CountExpired(elem, tq)
        THEN pos = (IF elem.fill = "freeze" THEN One ELSE Inactive)
        ELSE ~DurExpired(elem, tq) => ActiveAt(elem, tq)

\* a freezing primitive whose repeat count and repeat duration have both run
\* out reads 1.0
C21_Witness ==
    /\ QueriedFromBegin
    /\ elem.fill = "freeze"
    /\ CountExpired(elem, tq)
    /\ DurExpired(elem, tq)
    /\ PyMod(elem.repeatDur.val - elem.begin, elem.dur) # 0
    /\ pos = One

\* the phase is the repeatDur freeze: fraction
\* ((repeat_duration - begin) mod duration) / duration, in [0, 1)
FrozenAtDurFraction(a) ==
    /\ FracEq(pos, Frac(PyMod(a.repeatDur.val - a.begin, a.dur), a.dur))
    /\ pos.num >= 0
    /\ pos.num < pos.den

----------------------------------------------------------------------------
(* Properties of the order of application (SpecBuild) *)

\* the node the k-th animation element of engine e's document animates
TargetOf(e, k) ==
    LET d == e.source.decls[k]
    IN IF d.href # <<>> THEN CHOOSE n \in Nodes : IdOf(e, n) = d.href ELSE d.parent

\* the primitive extracted from the k-th animation element, in document
\* order, of engine e's document
Extracted(e, k) ==
    LET d == e.source.decls[k]
    IN Animator(d.effect, TargetOf(e, k), e.source.attrib, d.begin, d.dur, d.fill,
                Absent, Absent)

\* the engine was built from two animation elements and its last query
\* returned
QueriedPair(e) ==
    /\ e.ok
    /\ e.now # NoTime
    /\ ~e.raised
    /\ Len(e.source.decls) = 2

\* the primitive is not Inactive at t
NotInactive(a, t) == get_time_position(a, t).num >= 0

\* both primitives are Set or Interpolate primitives that write the same
\* attribute of the same node, and neither is Inactive at t
BothWrite(a1, a2, t) ==
    /\ a1.tag \in {"set", "animate"}
    /\ a2.tag \in {"set", "animate"}
    /\ a1.target = a2.target
    /\ a1.attrib_name = a2.attrib_name
    /\ NotInactive(a1, t)
    /\ NotInactive(a2, t)

\* the value the Set or Interpolate primitive a writes at t
Written(a, t) == apply(a, t, a.target_attrib).attrib[a.attrib_name]

\* of two primitives in extraction order, the one applied last: the one with
\* the larger begin, the later one when the begins are equal
AppliedLast(a1, a2) == IF a1.begin > a2.begin THEN a1 ELSE a2

\* C23: two Set/Interpolate primitives that write the same attribute of the
\* same node and are both not Inactive at t leave the value written by the
\* one with the larger begin, and for equal begins by the one extracted later
C23_LaterBeginWins ==
    \A i \in 1..Len(engines) :
        QueriedPair(engines[i]) =>
            LET a1 == Extracted(engines[i], 1)
                a2 == Extracted(engines[i], 2)
            IN BothWrite(a1, a2, engines[i].now) =>
                  engines[i].svg[a1.target][a1.attrib_name]
                      = Written(AppliedLast(a1, a2), engines[i].now)

\* the element extracted first begins later than the second, both are active
\* and the node reads the value of the first, which is not the second's
C23_Witness ==
    \E i \in 1..Len(engines) :
        /\ QueriedPair(engines[i])
        /\ LET a1 == Extracted(engines[i], 1)
               a2 == Extracted(engines[i], 2)
           IN /\ BothWrite(a1, a2, engines[i].now)
              /\ a1.begin > a2.begin
              /\ a2.tag = "animate"
              /\ Written(a1, engines[i].now) # Written(a2, engines[i].now)
              /\ engines[i].svg[a1.target][a1.attrib_name] = Written(a1, engines[i].now)

----------------------------------------------------------------------------
(* Further properties of the bouncing ball (SpecBall) *)

\* the step compiled at least two positions
CompiledTwo == Compiled /\ Cardinality(DOMAIN positions) >= 2

\* C24 as stated: of the primitives one compile emits for at least two
\* positions, in emission order, the first two have different invert flags
C24_Original ==
    [][ CompiledTwo => Emitted[1].invert # Emitted[2].invert ]_vars

\* C24, amended: the flag alternates at each iteration of the loop, so the
\* first two holds have different invert flags (the first is not inverted),
\* every hold differs from the hold before it, and each arc carries the flag
\* of the hold emitted just before it
C24_InvertAlternates ==
    [][ CompiledTwo =>
          /\ Emitted[1].invert = FALSE
          /\ Emitted[1].invert # Emitted[3].invert
          /\ \A i \in 1..Len(Emitted) :
                /\ (Emitted[i].kind = "arc") => Emitted[i].invert = Emitted[i - 1].invert
                /\ (Emitted[i].kind = "bounce" /\ i > 2)
                      => Emitted[i].invert # Emitted[i - 2].invert ]_vars

\* three positions were compiled: the holds read not inverted, inverted, not
\* inverted, and the two arcs as the holds before them
C24_Witness ==
    /\ compiles = 1
    /\ Len(animations) = 5
    /\ animations[1].invert = FALSE /\ animations[2].invert = FALSE
    /\ animations[3].invert = TRUE /\ animations[4].invert = TRUE
    /\ animations[5].invert = FALSE

----------------------------------------------------------------------------
(* Properties of the order of transform fragments (SpecBuild) *)

\* both primitives are Transform primitives of one family on the same node,
\* and both are active at t
BothTransform(a1, a2, t) ==
    /\ a1.tag = "animateTransform"
    /\ a2.tag = "animateTransform"
    /\ a1.transform_type = a2.transform_type
    /\ a1.target = a2.target
    /\ NotInactive(a1, t)
    /\ NotInactive(a2, t)

\* the fragment the Transform primitive a contributes at t
Fragment(a, t) ==
    transform_fragment(a.transform_type,
        interpolate_values(a.attrib_from, a.attrib_to, get_time_position(a, t),
                           TransformMod(a.transform_type)))

\* the places at which the fragment f occurs in the value s
PlacesOf(s, f) ==
    {i \in 1..Len(s) : i + Len(f) - 1 <= Len(s) /\ SubSeq(s, i, i + Len(f) - 1) = f}

\* the fragments f and g both occur in the transform of node n, f before g
InOrder(e, n, f, g) ==
    /\ "transform" \in DOMAIN e.svg[n]
    /\ PlacesOf(e.svg[n]["transform"], f) # {}
    /\ PlacesOf(e.svg[n]["transform"], g) # {}
    /\ \A i \in PlacesOf(e.svg[n]["transform"], f) :
          \A j \in PlacesOf(e.svg[n]["transform"], g) : i < j

\* C25 as stated: two active Transform primitives of one family on one node
\* both leave their fragment in the node's transform, in the order in which
\* they were registered, whatever their begin times
C25_Original ==
    \A i \in 1..Len(engines) :
        QueriedPair(engines[i]) =>
            LET a1 == Extracted(engines[i], 1)
                a2 == Extracted(engines[i], 2)
            IN BothTransform(a1, a2, engines[i].now) =>
                  InOrder(engines[i], a1.target, Fragment(a1, engines[i].now),
                          Fragment(a2, engines[i].now))

\* C25, amended: both fragments are in the node's transform, in the order in
\* which the primitives are applied: ascending begin, and registration order
\* for equal begins
C25_FragmentsInAppliedOrder ==
    \A i \in 1..Len(engines) :
        QueriedPair(engines[i]) =>
            LET a1 == Extracted(engines[i], 1)
                a2 == Extracted(engines[i], 2)
                last == AppliedLast(a1, a2)
                first == IF last = a1 THEN a2 ELSE a1
            IN BothTransform(a1, a2, engines[i].now) =>
                  InOrder(engines[i], a1.target, Fragment(first, engines[i].now),
                          Fragment(last, engines[i].now))

\* two translates on w2, the one registered first beginning later: the
\* fragment of the second stands before the fragment of the first
C25_Witness ==
    \E i \in 1..Len(engines) :
        /\ QueriedPair(engines[i])
        /\ LET a1 == Extracted(engines[i], 1)
               a2 == Extracted(engines[i], 2)
           IN /\ BothTransform(a1, a2, engines[i].now)
              /\ a1.transform_type = "translate"
              /\ a1.begin > a2.begin
              /\ InOrder(engines[i], a1.target, Fragment(a2, engines[i].now),
                         Fragment(a1, engines[i].now))

----------------------------------------------------------------------------
(* Monotonicity of the frozen fraction (SpecTiming) *)

\* fraction a is at most fraction b (both denominators positive)
FracLeq(a, b) == a.num * b.den <= b.num * a.den

\* the primitive freezes, has no repeat attribute, and was queried at a time
\* t >= begin
FreezingNoRepeat ==
    /\ QueriedFromBegin
    /\ elem.fill = "freeze"
    /\ NoRepeat(elem)

AtWindowEnd(a, t) == t = a.begin + a.dur

C27_Original ==
    [][ (Compiled /\ compiles >= 1) => animations' = animations ]_vars

\* the number of primitives one compile emits for the positions held
EmittedLen == 2 * Cardinality(DOMAIN positions) - 1

\* C29: after compile no assert(end_time >= begin_time) of a hold's or an
\* arc's asSVG can fail, and within what one compile emitted every primitive
\* ends no later than the next one begins: hold_i spans [begin_i, end_i] and
\* arc_i spans [end_i, begin_{i+1}]
C29_AssertionsHold ==
    compiles >= 1 =>
        /\ \A i \in 1..Len(animations) : asSVG_assertion(animations[i], positions)
        /\ \A i \in 1..(Len(animations) - 1) :
              (i % EmittedLen # 0) =>
                  animation_times(animations[i], positions).end_time
                      <= animation_times(animations[i + 1], positions).begin_time

\* a compiled ball one of whose positions was shortened: the arc that leaves
\* it has no duration, and a later arc has one
C29_Witness ==
    /\ compiles >= 1
    /\ \E k \in DOMAIN positions : positions[k].end_time < k + positions[k].duration
    /\ \E i \in 1..Len(animations) :
          /\ animations[i].kind = "arc"
          /\ animation_times(animations[i], positions).end_time
                = animation_times(animations[i], positions).begin_time
    /\ \E i \in 1..Len(animations) :
          /\ animations[i].kind = "arc"
          /\ animation_times(animations[i], positions).end_time
                > animation_times(animations[i], positions).begin_time

----------------------------------------------------------------------------
(* Properties of the padding of the slides (SpecPad) *)

\* pad_slides was called with a total_duration > 0 on at least one slide
Padded ==
    /\ padded # NoTime
    /\ padded > 0
    /\ Len(slides) >= 1

\* every slide ends where the next one begins
SlidesMeet == \A i \in 1..(Len(slides) - 1) : slides[i].end_time = slides[i + 1].begin_time

\* every slide ends no earlier than it begins
SlidesForward == \A i \in 1..Len(slides) : slides[i].end_time >= slides[i].begin_time

\* C28: after pad_slides(total_duration) with total_duration > 0 on at least
\* one slide the slides tile the timeline: the first begins at 0, the last
\* ends at total_duration, each slide ends where the next begins, and every
\* slide has end_time >= begin_time
C28_Original ==
    Padded =>
        /\ slides[1].begin_time = 0
        /\ slides[Len(slides)].end_time = padded
        /\ SlidesMeet
        /\ SlidesForward

----------------------------------------------------------------------------
(* Completion of add_all_timestamps (SpecCues) *)

\* C30: add_all_timestamps completes without raising for every cue list, the
\* empty list and a list whose ids match no node included, and gap filling
\* then leaves every highlightable node with a begin and an end
C30_Original ==
    /\ stage # "raised"
    /\ stage = "filled" =>
          \A n \in CueNodes :
              Reached(n) => (times[n].begin_time # HUGE_NUMBER /\ times[n].end_time # NoEnd)

====
